---------------------------- MODULE Spec2Model ----------------------------
(***************************************************************************)
(* A model of the cove core runtime: the ServiceHandle lifecycle           *)
(* (crates/types/src/system_service.rs), the services' run loops, the      *)
(* Supervisor (crates/core/src/main.rs), the EventBus                      *)
(* (crates/bus/src/lib.rs), the mDNS discovery driver                      *)
(* (crates/discovery/src/protocol/mdns.rs) beside the backend's            *)
(* (packages/backend/src/protocol/wifi.rs), the registry service           *)
(* (crates/registry/src/lib.rs) and the ESPHome client: its frame codec    *)
(* and its protocol client (crates/esphome/src/protocol.rs) under the      *)
(* connection (crates/esphome/src/connection.rs), and the backend's        *)
(* DeviceRegistry (packages/backend/src/device/registry.rs) with the two   *)
(* tasks of the api crate that write to it.                                *)
(*                                                                         *)
(* The specifications share the variables:                                 *)
(*   Spec          one service handle driven by a sequential caller        *)
(*   FairSpec      Spec with the executor's fairness                       *)
(*   SysSpec       the Supervisor starting and stopping the seven services *)
(*   BusSpec       the two EventBus instances, publishers and receivers    *)
(*   RegSpec       the registry's run loop receiving bus events            *)
(*   CodecSpec     varints and frames through the encoder and the decoder  *)
(*   EspSpec       one protocol client, its task, its callers and the peer *)
(*   EspFanoutSpec the same client with several subscribers                *)
(*   EspFairSpec   EspSpec with the executor's fairness                    *)
(*   CodecFaultSpec the decoder fed unknown types and over-long varints    *)
(*   SessionSpec   the connection's handshake and its gated operations     *)
(*   ListSpec      list_entities against the task and the peer             *)
(*   ListFairSpec  ListSpec with the timer and the executor's fairness     *)
(*   LogsSpec      subscribe_logs, its forwarding tasks and its receivers  *)
(*   LogsFairSpec  LogsSpec with the executor's fairness                   *)
(*   MdnsSpec      the browse tasks handing ServiceEvents to the handlers  *)
(*   MonitorSpec   start_discovery, monitor_mdns and stop_discovery        *)
(*   MonitorFairSpec MonitorSpec with the executor's fairness              *)
(*   WifiSpec      the backend's monitor_mdns recreating its daemon        *)
(*   DevRegSpec    the DeviceRegistry, the event processor and the sweep   *)
(***************************************************************************)
EXTENDS Naturals, Integers, Sequences, FiniteSets, TLC

\* Number of start()/stop() calls the caller of Spec makes on the handle.
MaxCalls == 4

Services ==
    {"db", "timeseries", "bus", "registry", "discovery", "integrations", "api"}

NoService == "none"

VARIABLES
    \* ---- ServiceHandle, one per service (system_service.rs:58-63) ----
    running,        \* running: AtomicBool
    stopped,        \* stopped: AtomicBool
    taskHandle,     \* task_handle: Option<JoinHandle>, "none" | "some"
    task,           \* position of the task spawned by start()
    \* ---- the call in progress on a handle, and the last call's outcome ----
    call,
    ret,
    \* ---- observations ----
    initCalls,      \* number of init() invocations per service
    cleanupCalls,   \* number of cleanup() invocations per service
    spawned,        \* number of tokio::spawn in start() per service
    timedOut,       \* stop() took the Err(_) arm of timeout(..)
    stopReturned,   \* number of stop() calls that returned, per service
    everStopped,    \* stop() has stored stopped = true
    ranAfterStop,   \* run() was entered after stop() returned
    \* ---- the caller of Spec ----
    svc,            \* the service whose handle Spec drives
    calls,          \* calls made so far
    \* ---- the Supervisor: System and main (core/src/main.rs) ----
    sysPc,          \* position of main
    sysIdx,         \* index of the next service in the start or stop order
    startLog,       \* services whose start() returned Ok, in order
    stopLog,        \* services on which stop() was called, in order
    \* ---- EventBus instances (bus/src/lib.rs:12-17) ----
    keepAlive,      \* _keep_alive_rx is Some
    chan,           \* the values sent on tx, oldest first
    rx,             \* the receivers handed out by subscribe()
    pubs,           \* publish() calls between their first and second send
    nextEv,         \* number of the next event published
    pubDone         \* the publish() calls that have returned

handleVars ==
    <<running, stopped, taskHandle, task, call, ret, initCalls, cleanupCalls,
      spawned, timedOut, stopReturned, everStopped, ranAfterStop>>

clientVars == <<svc, calls>>

sysVars == <<sysPc, sysIdx, startLog, stopLog>>

busRest == <<chan, rx, pubs, nextEv, pubDone>>

busVars == <<keepAlive, chan, rx, pubs, nextEv, pubDone>>

\* The EventBus the Supervisor constructs (main.rs:95) and the one the mDNS
\* driver's INSTANCE constructs for itself (mdns.rs:147-150).
Buses == {"system", "mdns"}

(***************************************************************************)
(* What each service's init(), run() and cleanup() can do.                 *)
(***************************************************************************)

\* init() returns Err only where the code has a fallible step:
\* TimeseriesDbService::init maps initialize_client's error.
InitCanFail(s) == s = "timeseries"

\* cleanup() returns Err only in ApiService::cleanup (self.api.stop().await?).
CleanupCanFail(s) == s = "api"

\* Services whose run() is `loop { select! { work, wait_for_cancel() } }`.
SelectLoop(s) == s \in {"bus", "registry", "integrations"}

\* run() can return Err (the `?`s in DbService::run, TimeseriesDbService::run,
\* RegistryService::run, and find_available_port in ApiService::run).
RunCanFail(s) == s \in {"db", "timeseries", "registry", "api"}

\* run() can return Ok without a cancel: the one-shot services, the
\* integration service after its 5 s, the API when the server returns.
RunCanReturn(s) == s \in {"db", "timeseries", "integrations", "api"}

\* run() can panic: Api::start unwraps the router build.
RunCanPanic(s) == s = "api"

NoCall ==
    [op |-> "none", svc |-> NoService, pc |-> "none", sawFlag |-> FALSE,
     didInit |-> FALSE]

NoRet ==
    [op |-> "none", svc |-> NoService, result |-> "none", cleanup |-> "none",
     sawFlag |-> FALSE, didInit |-> FALSE, didSpawn |-> FALSE]

\* main.rs:95-99: the bus main constructs is the one handed to the registry
\* and to the discovery service.
SystemBus == "system"

\* mdns.rs:147-150: the static INSTANCE constructs an EventBus of its own for
\* the MdnsProtocol it holds.
InstanceBus == "mdns"

\* mdns.rs:326-335, 272: start_discovery(&self, _event_bus) does not use the
\* bus it is handed; the tasks of monitor_mdns publish on self.event_bus.
DiscoveryBus(handed) == InstanceBus

\* EventBus::cleanup (bus/src/lib.rs:72-76): *_keep_alive_rx = None.
KeepAliveCleared(ka, b) == [ka EXCEPT ![b] = FALSE]

\* Receivers that subscribe() hands out in a run of the model.
MaxReceivers == 2

\* Events published in a run of the model.
MaxEvents == 3

\* Values the broadcast channel retains.  The code's channel(1000) is scaled
\* down; a receiver lags once more than this many values are unread.
BusCapacity == 2

Receivers == 1..MaxReceivers

NoReceiver ==
    [state |-> "free", next |-> 0, seen |-> <<>>, lagged |-> FALSE,
     due |-> <<>>, before |-> {}]

\* EventBus::new (bus/src/lib.rs:20-27): an empty channel, and the receiver
\* of broadcast::channel kept as _keep_alive_rx.
BusInit ==
    /\ keepAlive = [b \in Buses |-> TRUE]
    /\ chan = [b \in Buses |-> <<>>]
    /\ rx = [r \in Receivers |-> NoReceiver]
    /\ pubs = {}
    /\ nextEv = 1
    /\ pubDone = {}

HandleInit ==
    /\ running = [s \in Services |-> FALSE]
    /\ stopped = [s \in Services |-> FALSE]
    /\ taskHandle = [s \in Services |-> "none"]
    /\ task = [s \in Services |-> "none"]
    /\ call = NoCall
    /\ ret = NoRet
    /\ initCalls = [s \in Services |-> 0]
    /\ cleanupCalls = [s \in Services |-> 0]
    /\ spawned = [s \in Services |-> 0]
    /\ timedOut = [s \in Services |-> FALSE]
    /\ stopReturned = [s \in Services |-> 0]
    /\ everStopped = [s \in Services |-> FALSE]
    /\ ranAfterStop = [s \in Services |-> FALSE]

(***************************************************************************)
(* ServiceHandle::start, in its three steps: the flag check, init().await, *)
(* and the store of running with the spawn of the run-loop task.           *)
(***************************************************************************)

\* A start() that checks running alone.
StartGuardRunningOnly(s) == running[s]

\* system_service.rs:84: the early return of start().
StartGuard(s) == running[s] \/ stopped[s]

\* The outcome of a call: its result, and what the call saw and did
\* (sawFlag: running or stopped was set when start() was entered).
Returned(op, s, result, cleanup, sawFlag, didInit, didSpawn) ==
    [op |-> op, svc |-> s, result |-> result, cleanup |-> cleanup,
     sawFlag |-> sawFlag, didInit |-> didInit, didSpawn |-> didSpawn]

StartCheck(s) ==
    /\ call.op = "start" /\ call.svc = s /\ call.pc = "check"
    /\ IF StartGuard(s)
         THEN /\ call' = NoCall
              /\ ret' = Returned("start", s, "Ok", "none",
                               running[s] \/ stopped[s], FALSE, FALSE)
         ELSE /\ call' = [call EXCEPT !.pc = "init",
                                      !.sawFlag = running[s] \/ stopped[s]]
              /\ UNCHANGED ret
    /\ UNCHANGED <<running, stopped, taskHandle, task, initCalls, cleanupCalls,
                   spawned, timedOut, stopReturned, everStopped, ranAfterStop>>

StartInit(s) ==
    /\ call.op = "start" /\ call.svc = s /\ call.pc = "init"
    /\ initCalls' = [initCalls EXCEPT ![s] = @ + 1]
    /\ \E ok \in (IF InitCanFail(s) THEN BOOLEAN ELSE {TRUE}) :
         IF ok
           THEN /\ call' = [call EXCEPT !.pc = "spawn", !.didInit = TRUE]
                /\ UNCHANGED ret
           ELSE /\ call' = NoCall
                /\ ret' = Returned("start", s, "Err", "none", call.sawFlag, TRUE,
                                FALSE)
    /\ UNCHANGED <<running, stopped, taskHandle, task, cleanupCalls, spawned,
                   timedOut, stopReturned, everStopped, ranAfterStop>>

StartSpawn(s) ==
    /\ call.op = "start" /\ call.svc = s /\ call.pc = "spawn"
    /\ running' = [running EXCEPT ![s] = TRUE]
    /\ task' = [task EXCEPT ![s] = "check"]
    /\ spawned' = [spawned EXCEPT ![s] = @ + 1]
    /\ taskHandle' = [taskHandle EXCEPT ![s] = "some"]
    /\ call' = NoCall
    /\ ret' = Returned("start", s, "Ok", "none", call.sawFlag, call.didInit, TRUE)
    /\ UNCHANGED <<stopped, initCalls, cleanupCalls, timedOut, stopReturned,
                   everStopped, ranAfterStop>>

(***************************************************************************)
(* The task spawned by start():                                            *)
(*   while running && !stopped { if run().await is Err { break } }         *)
(* Positions: "check" the while condition; "work" inside run(), doing work *)
(* that ends by itself; "iter" inside run() between two select!s, with no  *)
(* Notified registered; "waiting" suspended in select! with the Notified   *)
(* of wait_for_cancel() registered; "woken" resumed by a cancel or         *)
(* shutdown signal; "blocked" suspended on an await that the handle's      *)
(* cancel does not complete; "done" and "panicked" finished.               *)
(***************************************************************************)

Finished(p) == p \in {"none", "done", "panicked"}

\* The position after one step of run() from position p.
RunNext(s, p) ==
    CASE p = "woken" -> {"check"}
      [] p = "iter" ->
            {"waiting"}
            \cup (IF s = "integrations" THEN {"check"} ELSE {})
            \cup (IF s = "registry" THEN {"done"} ELSE {})
      [] p = "work" ->
            (IF RunCanReturn(s) THEN {"check"} ELSE {})
            \cup (IF RunCanFail(s) THEN {"done"} ELSE {})
            \cup (IF RunCanPanic(s) THEN {"panicked"} ELSE {})
            \cup (IF s \in {"api", "discovery"} THEN {"blocked"} ELSE {})
      [] OTHER -> {}

\* system_service.rs:94: the while condition of the spawned task.
LoopCondition(s) == running[s] /\ ~stopped[s]

TaskLoop(s) ==
    /\ task[s] = "check"
    /\ IF LoopCondition(s)
         THEN /\ task' = [task EXCEPT ![s] = IF SelectLoop(s) THEN "iter" ELSE "work"]
              /\ ranAfterStop' =
                    [ranAfterStop EXCEPT ![s] = @ \/ stopReturned[s] > 0]
         ELSE /\ task' = [task EXCEPT ![s] = "done"]
              /\ UNCHANGED ranAfterStop
    /\ UNCHANGED <<running, stopped, taskHandle, call, ret, initCalls,
                   cleanupCalls, spawned, timedOut, stopReturned, everStopped>>

TaskRun(s) ==
    /\ \E p \in RunNext(s, task[s]) : task' = [task EXCEPT ![s] = p]
    /\ UNCHANGED <<running, stopped, taskHandle, call, ret, initCalls,
                   cleanupCalls, spawned, timedOut, stopReturned, everStopped,
                   ranAfterStop>>

\* The work branch of the select! completes (the sleep elapses, a bus event
\* arrives): the Notified of this iteration is dropped.
TaskTick(s) ==
    /\ task[s] = "waiting"
    /\ task' = [task EXCEPT ![s] = "iter"]
    /\ UNCHANGED <<running, stopped, taskHandle, call, ret, initCalls,
                   cleanupCalls, spawned, timedOut, stopReturned, everStopped,
                   ranAfterStop>>

(***************************************************************************)
(* ServiceHandle::stop, in its three steps: the stores and                 *)
(* notify_waiters(); the take of the join handle and the timed wait for    *)
(* the task; cleanup() and the return.                                     *)
(***************************************************************************)

\* Notify::notify_waiters wakes the Notified futures that exist now; it
\* stores no permit for a later notified().
NotifyWaiters(s, p) == IF p = "waiting" THEN "woken" ELSE p

StopSignal(s) ==
    /\ call.op = "stop" /\ call.svc = s /\ call.pc = "signal"
    /\ running' = [running EXCEPT ![s] = FALSE]
    /\ stopped' = [stopped EXCEPT ![s] = TRUE]
    /\ everStopped' = [everStopped EXCEPT ![s] = TRUE]
    /\ task' = [task EXCEPT ![s] = NotifyWaiters(s, @)]
    /\ call' = [call EXCEPT !.pc = "await"]
    /\ UNCHANGED <<taskHandle, ret, initCalls, cleanupCalls, spawned, timedOut,
                   stopReturned, ranAfterStop>>

\* The task is suspended and nothing pending will resume it: SHUTDOWN_TIMEOUT
\* (3 s) elapses only in these positions; from the others the task reaches
\* its end in a time that is short against the timeout.
Suspended(p) == p \in {"iter", "waiting", "blocked"}

\* What `timeout(SHUTDOWN_TIMEOUT, handle).await` leaves of the task when the
\* timeout elapses: the JoinHandle is dropped, which detaches the task.
AfterTimeout(p) == p

StopAwait(s) ==
    /\ call.op = "stop" /\ call.svc = s /\ call.pc = "await"
    /\ taskHandle' = [taskHandle EXCEPT ![s] = "none"]
    /\ IF taskHandle[s] = "none"
         THEN UNCHANGED <<task, timedOut>>
         ELSE \/ /\ task[s] \in {"done", "panicked"}
                 /\ UNCHANGED <<task, timedOut>>
              \/ /\ Suspended(task[s])
                 /\ timedOut' = [timedOut EXCEPT ![s] = TRUE]
                 /\ task' = [task EXCEPT ![s] = AfterTimeout(@)]
    /\ call' = [call EXCEPT !.pc = "cleanup"]
    /\ UNCHANGED <<running, stopped, ret, initCalls, cleanupCalls, spawned,
                   stopReturned, everStopped, ranAfterStop>>

\* A stop() that logs cleanup()'s error and returns Ok.
StopResultSwallowed(cleanup) == "Ok"

\* system_service.rs:140-145: the result of stop() from cleanup()'s.
StopResult(cleanup) == IF cleanup = "Err" THEN "Err" ELSE "Ok"

\* EventBus::cleanup drops the keep-alive receiver of the Supervisor's bus;
\* DiscoveryService::cleanup sends on the service's shutdown channel, which
\* the run() suspended in shutdown.recv() receives.
CleanupEffect(s) ==
    /\ keepAlive' = IF s = "bus" THEN KeepAliveCleared(keepAlive, SystemBus)
                    ELSE keepAlive
    /\ task' = IF s = "discovery" /\ task[s] = "blocked"
                 THEN [task EXCEPT ![s] = "woken"]
                 ELSE task

StopCleanup(s) ==
    /\ call.op = "stop" /\ call.svc = s /\ call.pc = "cleanup"
    /\ cleanupCalls' = [cleanupCalls EXCEPT ![s] = @ + 1]
    /\ CleanupEffect(s)
    /\ \E c \in (IF CleanupCanFail(s) THEN {"Ok", "Err"} ELSE {"Ok"}) :
         ret' = Returned("stop", s, StopResult(c), c, FALSE, FALSE, FALSE)
    /\ stopReturned' = [stopReturned EXCEPT ![s] = @ + 1]
    /\ call' = NoCall
    /\ UNCHANGED <<running, stopped, taskHandle, initCalls, spawned, timedOut,
                   everStopped, ranAfterStop>>

(***************************************************************************)
(* Spec: one handle, and a caller that makes start() and stop() calls on   *)
(* it one after the other, as the Supervisor does.                         *)
(***************************************************************************)

ClientCall ==
    /\ call.op = "none"
    /\ calls < MaxCalls
    /\ calls' = calls + 1
    /\ \E op \in {"start", "stop"} :
         call' = [op |-> op, svc |-> svc, sawFlag |-> FALSE, didInit |-> FALSE,
                  pc |-> IF op = "start" THEN "check" ELSE "signal"]
    /\ UNCHANGED <<running, stopped, taskHandle, task, ret, initCalls,
                   cleanupCalls, spawned, timedOut, stopReturned, everStopped,
                   ranAfterStop, svc>>

HandleStep(s) ==
    \/ StartCheck(s)
    \/ StartInit(s)
    \/ StartSpawn(s)
    \/ StopSignal(s)
    \/ StopAwait(s)

(***************************************************************************)
(* The state of the device side: the registry service's DeviceRegistry,    *)
(* the codec's buffers and the ESPHome client.  Spec, SysSpec and BusSpec  *)
(* leave it as constructed.                                                *)
(***************************************************************************)
VARIABLES
    \* ---- RegistryService (registry/src/lib.rs:14-18) ----
    devices,        \* the ids device_registry holds
    regEvents       \* the bus events run() has received, oldest first

VARIABLES
    \* ---- DeviceRegistry (packages/backend/src/device/registry.rs) ----
    registry,       \* devices: the Device under each id, or Absent
    regOp,          \* the last two operations on it and the ids before them
    proc,           \* EventProcessor::process_event: the copy it holds
    sweep           \* the NetworkOffline sweep: the copies still to write

devRegVars == <<registry, regOp, proc, sweep>>

regVars == <<devices, regEvents, devRegVars>>

VARIABLES
    \* ---- ESPHomeCodec and the varints (esphome/src/protocol.rs:148-410) ----
    cValue,         \* the u64 under test, in groups of 7 bits
    cBytes,         \* what encode_varuint wrote for it
    cDecoded,       \* what decode_varuint made of cBytes
    frames,         \* the frames that are encoded, in order
    stream,         \* the encoded bytes not yet handed to the decoder
    buf,            \* the decoder's buffer (src: &mut BytesMut)
    decoded,        \* the frames decode() has returned, in order
    lastDecode      \* the last call of decode(): its buffer and its outcome

codecVars ==
    <<cValue, cBytes, cDecoded, frames, stream, buf, decoded, lastDecode>>

VARIABLES
    \* ---- ESPHomeProtocolClient (esphome/src/protocol.rs:415-421) and ----
    \* ---- ESPHomeConnection (esphome/src/connection.rs:20-27)       ----
    txSome,             \* tx: Option<mpsc::Sender<..>> is Some
    espTask,            \* the task spawned by ensure_connected
    exitCause,          \* why that task left its loop
    connected,          \* ESPHomeConnection::connected
    outbound,           \* the (frame, response_sender) pairs sent on tx
    pending_responses,  \* HashMap<MessageType, MessageResponseSender>
    message_callbacks,  \* per subscriber: the type it registered, its queue
    rpc,                \* the send_and_receive calls made, by number
    wire,               \* the bytes the peer wrote that are not yet decoded
    peer,               \* the peer's end of the socket, "open" | "closed"
    peerSent,           \* number of writes the peer made
    dispatched          \* the inbound frames dispatched, in order

espVars ==
    <<txSome, espTask, exitCause, connected, outbound, pending_responses,
      message_callbacks, rpc, wire, peer, peerSent, dispatched>>

VARIABLES
    \* ---- the operations of ESPHomeConnection (connection.rs:30-213) ----
    sessOp,     \* the operation called last: its name, where it is, its result
    handlers,   \* the tasks spawned to forward a subscription queue
    entityRx,   \* rx of list_entities: what the entity handlers sent on tx
    receivers   \* the receivers subscribe_logs returned to its callers

sessVars == <<sessOp, handlers, entityRx, receivers>>

VARIABLES
    \* ---- MdnsProtocol (discovery/src/protocol/mdns.rs) ----
    mdnsTasks,      \* the task monitor_mdns spawned for each browse handle
    mdnsSeen,       \* the ServiceEvents handed to handle_mdns_event, in order
    mdnsPublished,  \* the events it passed to event_bus.publish, in order
    \* ---- WiFiProtocol (packages/backend/src/protocol/wifi.rs) ----
    wifiSeen,       \* the ServiceEvents handed to its handle_mdns_event
    wifiSent,       \* the DeviceEvents it sent on device_tx, in order
    \* ---- MdnsProtocol: monitor_mdns against stop_discovery ----
    monPc,          \* position of the task running monitor_mdns
    stopPc,         \* position of the call of stop_discovery
    browseHandles,  \* keys of self.browse_handles
    shutdownRx,     \* the receivers of self.shutdown: monitor's and the tasks'
    \* ---- WiFiProtocol: monitor_mdns and the daemons it creates ----
    wifiPc,         \* position of the backend's monitor_mdns loop
    wifiTasks,      \* the task it spawned for each browse handle
    wifiHandles,    \* the daemon each browse handle of self.browse_handles is of
    daemons         \* the ServiceDaemons created so far: "live" or "ended"

mdnsLog == <<mdnsSeen, mdnsPublished, wifiSeen, wifiSent>>

mdnsCtl == <<monPc, stopPc, browseHandles, shutdownRx>>

wifiCtl == <<wifiPc, wifiTasks, wifiHandles, daemons>>

mdnsVars == <<mdnsTasks, mdnsLog, mdnsCtl, wifiCtl>>

deviceVars == <<regVars, codecVars, espVars, sessVars, mdnsVars>>

\* RegistryService::new (registry/src/lib.rs:21-27): DeviceRegistry::new().
\* No entry under an id: None of Option<Device>.
Absent == [id |-> "none", status |-> "absent", raw_details |-> ""]

RegistryIds == {"d1", "d2"}

NoRegOp ==
    [n |-> 0, name |-> "none", id |-> "none", before |-> {},
     prevName |-> "none", prevId |-> "none", before2 |-> {}]

NoCopy == [pc |-> "idle", id |-> "none", device |-> Absent]

\* DeviceRegistry::new (registry.rs:15-19): an empty map.
DeviceRegistryNew ==
    /\ registry = [id \in RegistryIds |-> Absent]
    /\ regOp = NoRegOp
    /\ proc = NoCopy
    /\ sweep = {}

RegistryInit ==
    /\ devices = {}
    /\ regEvents = <<>>
    /\ DeviceRegistryNew

\* A u64 as ten groups of 7 bits, least significant first; the tenth group
\* holds bit 63 alone.
Groups == 1..10

Zero64 == [g \in Groups |-> 0]

\* decode_varuint and decode() have not been called.
NotRun == [state |-> "none"]

NoDecode == [src |-> <<>>, kind |-> "none", err |-> "none", rest |-> <<>>]

CodecIdle ==
    /\ cValue = Zero64
    /\ cBytes = <<>>
    /\ cDecoded = NotRun
    /\ frames = <<>>
    /\ stream = <<>>
    /\ buf = <<>>
    /\ decoded = <<>>
    /\ lastDecode = NoDecode

\* Number of send_and_receive calls made on one client.
MaxRequests == 2

\* Number of writes the peer makes on the socket.
MaxInbound == 2

\* Capacity of a subscription queue: mpsc::channel::<Bytes>(32) in
\* register_callback (protocol.rs:642), scaled down.
QueueCapacity == 1

CallbackIds == {"s1", "s2"}

\* The queues the operations of ESPHomeConnection register: those of
\* list_entities for two of its 23 entity types and for
\* ListEntitiesDoneResponse, that of subscribe_states for one of its 20
\* state types, and those of two calls of subscribe_logs.
EntityIds == {"binary_sensor", "sensor"}

StateIds == {"binary_sensor_state"}

LogIds == {"logs1", "logs2"}

SessionCallbackIds == EntityIds \cup {"done"} \cup StateIds \cup LogIds

AllCallbackIds == CallbackIds \cup SessionCallbackIds

CallIds == 1..MaxRequests

\* A call not made yet.  state is "waiting" from the send on tx to the
\* outcome of response_rx.await; registered and regAt say whether and after
\* how many dispatched frames the task stored the call's sender.
NoRpc == [req |-> 0, state |-> "none", resp |-> 0, data |-> 0, error |-> "",
          registered |-> FALSE, regAt |-> 0]

\* A subscriber that has not registered: type is the message type it
\* registers for, queue what its mpsc channel holds, got all that was ever
\* put into it, recvd how many of those its receiver took out.
NoCallback == [type |-> 0, queue |-> <<>>, got |-> <<>>, recvd |-> 0]

\* ESPHomeProtocolClient::new (protocol.rs:425-433) and
\* ESPHomeConnection::new (connection.rs:222-228).
EspInit ==
    /\ txSome = FALSE
    /\ espTask = "none"
    /\ exitCause = "none"
    /\ connected = FALSE
    /\ outbound = <<>>
    /\ pending_responses = {}
    /\ message_callbacks = [s \in AllCallbackIds |-> NoCallback]
    /\ rpc = [c \in CallIds |-> NoRpc]
    /\ wire = <<>>
    /\ peer = "open"
    /\ peerSent = 0
    /\ dispatched = <<>>

\* No operation called yet.  name is the operation, pc "awaiting" while its
\* future is pending, "returned" or "cancelled" after; was is `connected`
\* when it was called, c the number of its send_and_receive call, ids the
\* queues it registered, entities what list_entities has accumulated.
NoOp == [name |-> "none", pc |-> "idle", result |-> "none", was |-> FALSE,
         c |-> 0, ids |-> {}, entities |-> <<>>, listening |-> TRUE]

SessionIdle ==
    /\ sessOp = NoOp
    /\ handlers = [s \in SessionCallbackIds |-> "none"]
    /\ entityRx = <<>>
    /\ receivers = [s \in LogIds |-> "none"]

\* Browse handles of the model: two of MDNS_SERVICE_TYPES (mdns.rs:30-143).
ServiceTypes == {"_esphomelib._tcp.local.", "_googlecast._tcp.local."}

\* monitor_mdns not yet started: no task, nothing received.
MdnsIdle ==
    /\ mdnsTasks = [st \in ServiceTypes |-> "none"]
    /\ mdnsSeen = <<>>
    /\ mdnsPublished = <<>>
    /\ wifiSeen = <<>>
    /\ wifiSent = <<>>
    /\ monPc = "none"
    /\ stopPc = "none"
    /\ browseHandles = ServiceTypes
    /\ shutdownRx = [r \in ServiceTypes \cup {"monitor"} |-> "none"]
    /\ wifiPc = "none"
    /\ wifiTasks = [st \in ServiceTypes |-> "none"]
    /\ wifiHandles = [st \in ServiceTypes |-> 0]
    /\ daemons = <<>>

DeviceInit ==
    /\ RegistryInit
    /\ CodecIdle
    /\ EspInit
    /\ SessionIdle
    /\ MdnsIdle


SysOff ==
    /\ sysPc = "off"
    /\ sysIdx = 0
    /\ startLog = <<>>
    /\ stopLog = <<>>

Init ==
    /\ HandleInit
    /\ svc \in Services
    /\ calls = 0
    /\ SysOff
    /\ BusInit
    /\ DeviceInit

\* A step of a call or of a task leaves the caller, the Supervisor and the
\* buses as they are (cleanup() alone touches a bus).
Others == UNCHANGED <<clientVars, sysVars, busVars, deviceVars>>

Next ==
    \/ ClientCall /\ UNCHANGED <<sysVars, busVars, deviceVars>>
    \/ \E s \in Services : StartCheck(s) /\ Others
    \/ \E s \in Services : StartInit(s) /\ Others
    \/ \E s \in Services : StartSpawn(s) /\ Others
    \/ \E s \in Services : StopSignal(s) /\ Others
    \/ \E s \in Services : StopAwait(s) /\ Others
    \/ \E s \in Services : StopCleanup(s) /\ UNCHANGED <<clientVars, sysVars, busRest, deviceVars>>
    \/ \E s \in Services : TaskLoop(s) /\ Others
    \/ \E s \in Services : TaskRun(s) /\ Others
    \/ \E s \in Services : TaskTick(s) /\ Others

vars == <<handleVars, clientVars, sysVars, busVars, deviceVars>>

Spec == Init /\ [][Next]_vars

(***************************************************************************)
(* FairSpec: the executor runs every task that is ready, and the timer of  *)
(* timeout(SHUTDOWN_TIMEOUT, ..) fires: a call in progress takes its next  *)
(* step, and a task that is not suspended takes its next step.             *)
(***************************************************************************)

CallProgress ==
    \/ \E s \in Services : HandleStep(s) /\ Others
    \/ \E s \in Services : StopCleanup(s) /\ UNCHANGED <<clientVars, sysVars, busRest, deviceVars>>

TaskProgress(s) == (TaskLoop(s) \/ TaskRun(s)) /\ Others

FairSpec ==
    /\ Spec
    /\ WF_vars(CallProgress)
    /\ \A s \in Services : WF_vars(TaskProgress(s))

(***************************************************************************)
(* Claims on the ServiceHandle (Spec, FairSpec).                           *)
(***************************************************************************)

\* C1: after stop() has returned on a handle, the task spawned by that
\* handle's start() is finished (or was aborted): it is neither running nor
\* runnable.
C1_NoTaskAfterStop ==
    \A s \in Services : stopReturned[s] > 0 => Finished(task[s])

\* C2: once stop() has signalled cancel, the run-loop task of every service
\* ends by itself: when stop() goes on to cleanup() the task is finished and
\* the timeout arm was not taken.
C2_CancelEndsRunLoop ==
    \A s \in Services :
        (call.op = "stop" /\ call.svc = s /\ call.pc = "cleanup")
            => (Finished(task[s]) /\ ~timedOut[s])

\* C3: after two stop() calls on a service the flags are as after one
\* (running false, stopped true) and cleanup() has been invoked exactly once.
C3_StopTwiceIsStopOnce ==
    \A s \in Services :
        stopReturned[s] >= 2
            => (~running[s] /\ stopped[s] /\ cleanupCalls[s] = 1)

\* C4: every stop() call returns, whatever the run-loop task does; when it
\* has returned, cleanup() was invoked in that call (once per returned stop()
\* at least), and a failed cleanup() is the error stop() returns.
C4_StopReturnsAfterCleanup ==
    /\ [](ret.op = "stop"
            => /\ ret.cleanup \in {"Ok", "Err"}
               /\ cleanupCalls[ret.svc] >= stopReturned[ret.svc]
               /\ stopReturned[ret.svc] >= 1
               /\ (ret.cleanup = "Err" <=> ret.result = "Err"))
    /\ \A s \in Services :
          (call.op = "stop" /\ call.svc = s)
              ~> (call.op = "none" /\ ret.op = "stop" /\ ret.svc = s)

\* C4 witness: a stop() that took the timeout arm and whose cleanup() failed
\* has returned that error.
C4_Witness ==
    /\ ret.op = "stop" /\ ret.result = "Err"
    /\ timedOut[ret.svc] /\ ~Finished(task[ret.svc])

\* C5: a start() entered with running or stopped set returns Ok without
\* init() and without a spawn; start() calls made one after the other spawn
\* at most one task per handle; stopped, once set, stays set, and run() is
\* not entered after a stop() has returned.
C5_StartIsGuarded ==
    /\ (ret.op = "start" /\ ret.sawFlag)
          => (ret.result = "Ok" /\ ~ret.didInit /\ ~ret.didSpawn)
    /\ \A s \in Services :
          /\ spawned[s] <= 1
          /\ initCalls[s] >= spawned[s]
          /\ everStopped[s] => stopped[s]
          /\ ~ranAfterStop[s]

\* C5 witness: a start() on a stopped handle that had run a task returned.
C5_Witness ==
    /\ ret.op = "start" /\ ret.sawFlag /\ ret.result = "Ok"
    /\ stopped[ret.svc] /\ spawned[ret.svc] = 1

(***************************************************************************)
(* SysSpec: the Supervisor.  main constructs the services, awaits          *)
(* System::start, waits for ctrl-c and awaits System::stop; every `?`      *)
(* returns the error from main, which ends the process.                    *)
(***************************************************************************)

\* main.rs:29-55: the order of the start() calls of System::start.
StartOrder ==
    <<"db", "bus", "registry", "discovery", "integrations", "api", "timeseries">>

\* main.rs:57-82: the order of the stop() calls of System::stop.
StopOrder ==
    <<"api", "integrations", "discovery", "registry", "bus", "db", "timeseries">>

NewCall(op, s) ==
    [op |-> op, svc |-> s, sawFlag |-> FALSE, didInit |-> FALSE,
     pc |-> IF op = "start" THEN "check" ELSE "signal"]

\* The process is running: main has neither returned nor called exit.
Alive == sysPc \notin {"exit0", "startFailed", "stopFailed"}

\* System::start calls start() on the next service of its order.
SystemStart ==
    /\ sysPc = "start"
    /\ call.op = "none"
    /\ call' = NewCall("start", StartOrder[sysIdx])
    /\ sysPc' = "starting"
    /\ UNCHANGED <<running, stopped, taskHandle, task, ret, initCalls,
                   cleanupCalls, spawned, timedOut, stopReturned, everStopped,
                   ranAfterStop, sysIdx, startLog, stopLog>>

\* The start() call has returned: `?` returns its error from System::start
\* and from main (main.rs:133); Ok goes on to the next service, and after
\* the last one main waits for ctrl-c.
SystemStartReturned ==
    /\ sysPc = "starting"
    /\ call.op = "none"
    /\ IF ret.result = "Err"
         THEN /\ sysPc' = "startFailed"
              /\ UNCHANGED <<sysIdx, startLog>>
         ELSE /\ startLog' = Append(startLog, ret.svc)
              /\ sysIdx' = IF sysIdx = Len(StartOrder) THEN 1 ELSE sysIdx + 1
              /\ sysPc' = IF sysIdx = Len(StartOrder) THEN "running" ELSE "start"
    /\ UNCHANGED <<handleVars, stopLog>>

\* main.rs:139-141: ctrl-c arrives and main calls System::stop.
CtrlC ==
    /\ sysPc = "running"
    /\ sysPc' = "stop"
    /\ UNCHANGED <<handleVars, sysIdx, startLog, stopLog>>

\* System::stop calls stop() on the next service of its order.
SystemStop ==
    /\ sysPc = "stop"
    /\ call.op = "none"
    /\ call' = NewCall("stop", StopOrder[sysIdx])
    /\ stopLog' = Append(stopLog, StopOrder[sysIdx])
    /\ sysPc' = "stopping"
    /\ UNCHANGED <<running, stopped, taskHandle, task, ret, initCalls,
                   cleanupCalls, spawned, timedOut, stopReturned, everStopped,
                   ranAfterStop, sysIdx, startLog>>

\* The stop() call has returned: `?` returns its error from System::stop and
\* from main (main.rs:141); after the last service main calls exit(0).
SystemStopReturned ==
    /\ sysPc = "stopping"
    /\ call.op = "none"
    /\ IF ret.result = "Err"
         THEN /\ sysPc' = "stopFailed"
              /\ UNCHANGED sysIdx
         ELSE /\ sysIdx' = IF sysIdx = Len(StopOrder) THEN sysIdx ELSE sysIdx + 1
              /\ sysPc' = IF sysIdx = Len(StopOrder) THEN "exit0" ELSE "stop"
    /\ UNCHANGED <<handleVars, startLog, stopLog>>

SysInit ==
    /\ HandleInit
    /\ svc = NoService
    /\ calls = 0
    /\ sysPc = "start"
    /\ sysIdx = 1
    /\ startLog = <<>>
    /\ stopLog = <<>>
    /\ BusInit
    /\ DeviceInit

SysNext ==
    \/ SystemStart /\ UNCHANGED <<clientVars, busVars, deviceVars>>
    \/ SystemStartReturned /\ UNCHANGED <<clientVars, busVars, deviceVars>>
    \/ CtrlC /\ UNCHANGED <<clientVars, busVars, deviceVars>>
    \/ SystemStop /\ UNCHANGED <<clientVars, busVars, deviceVars>>
    \/ SystemStopReturned /\ UNCHANGED <<clientVars, busVars, deviceVars>>
    \/ \E s \in Services : StartCheck(s) /\ Others
    \/ \E s \in Services : StartInit(s) /\ Others
    \/ \E s \in Services : StartSpawn(s) /\ Others
    \/ \E s \in Services : StopSignal(s) /\ Others
    \/ \E s \in Services : StopAwait(s) /\ Others
    \/ \E s \in Services : StopCleanup(s) /\ UNCHANGED <<clientVars, sysVars, busRest, deviceVars>>
    \/ \E s \in Services : Alive /\ TaskLoop(s) /\ Others
    \/ \E s \in Services : Alive /\ TaskRun(s) /\ Others
    \/ \E s \in Services : Alive /\ TaskTick(s) /\ Others

SysSpec == SysInit /\ [][SysNext]_vars

Reverse(q) == [i \in 1..Len(q) |-> q[Len(q) + 1 - i]]

IsPrefix(p, q) == Len(p) <= Len(q) /\ SubSeq(q, 1, Len(p)) = p

\* The start order of the specification, section 4.3.
DocumentedStartOrder ==
    <<"db", "timeseries", "bus", "registry", "discovery", "integrations", "api">>

\* C6: the Supervisor starts the services in the order persistent store,
\* time-series ingest, event bus, registry, discovery, integrations, RPC
\* surface, and stops them in the reverse of the order it started them in.
C6_StartOrderAndReverseStop ==
    /\ IsPrefix(startLog, DocumentedStartOrder)
    /\ IsPrefix(stopLog, Reverse(startLog))

\* C7: when a service's init() fails in System::start, no later service is
\* started, every service started before it has been stopped again, in
\* reverse start order, and the failed service is not running and has no
\* task.
C7_InitFailureTearsDown ==
    sysPc = "startFailed"
        => /\ stopLog = Reverse(startLog)
           /\ \A i \in 1..Len(startLog) : stopReturned[startLog[i]] >= 1
           /\ ~running[ret.svc] /\ task[ret.svc] = "none"
           /\ \A s \in Services :
                 (\A i \in 1..Len(startLog) : startLog[i] # s) => spawned[s] = 0

(***************************************************************************)
(* BusSpec: the EventBus.  tx is a tokio broadcast channel: send() fails   *)
(* when no receiver exists and otherwise stores the value for every        *)
(* receiver; a receiver reads from its own position, and one that is more  *)
(* than the capacity behind gets Lagged and skips to the oldest retained   *)
(* value.  The Supervisor's bus is the one subscribe() is called on (by    *)
(* the registry); the mDNS driver's bus is private to the driver.          *)
(***************************************************************************)

Range(q) == {q[i] : i \in 1..Len(q)}

NoDuplicates(q) == \A i, j \in 1..Len(q) : q[i] = q[j] => i = j

\* The subsequence of q of the elements in set S.
RECURSIVE Restrict(_, _)
Restrict(q, S) ==
    IF q = <<>> THEN <<>>
    ELSE IF Head(q) \in S THEN <<Head(q)>> \o Restrict(Tail(q), S)
    ELSE Restrict(Tail(q), S)

Subscribers(b) ==
    IF b = SystemBus THEN {r \in Receivers : rx[r].state = "live"} ELSE {}

\* The receivers of tx: the subscribers and the keep-alive receiver.
ReceiverCount(b) ==
    Cardinality(Subscribers(b)) + (IF keepAlive[b] THEN 1 ELSE 0)

\* broadcast::Sender::send is Err exactly when there is no receiver.
SendOk(b) == ReceiverCount(b) > 0

\* A subscribe() that starts the receiver at the oldest retained value.
SubscribeAtOldest(c) == IF Len(c) > BusCapacity THEN Len(c) - BusCapacity ELSE 0

\* bus/src/lib.rs:29-31: tx.subscribe() starts the receiver at the tail.
SubscribePosition(c) == Len(c)

\* A publish() that returns the error of the second send.
PublishResultPropagated(secondOk) == IF secondOk THEN "Ok" ELSE "Err"

\* bus/src/lib.rs:42-48: the result of publish() after the second send.
PublishResult(secondOk) == "Ok"

Done(e, b, src, result, attempts, stored) ==
    [ev |-> e, bus |-> b, src |-> src, result |-> result,
     attempts |-> attempts, stored |-> stored,
     heard |-> stored /\ Subscribers(b) # {}]

\* EventBus::subscribe on the Supervisor's bus.
Subscribe(r) ==
    /\ rx[r].state = "free"
    /\ \A q \in Receivers : q < r => rx[q].state # "free"
    /\ rx' = [rx EXCEPT ![r] =
                [state |-> "live", next |-> SubscribePosition(chan[SystemBus]),
                 seen |-> <<>>, lagged |-> FALSE, due |-> <<>>,
                 before |-> {d.ev : d \in pubDone}]]
    /\ UNCHANGED <<keepAlive, chan, pubs, nextEv, pubDone>>

\* The holder of a receiver drops it.
DropReceiver(r) ==
    /\ rx[r].state = "live"
    /\ rx' = [rx EXCEPT ![r].state = "dropped"]
    /\ UNCHANGED <<keepAlive, chan, pubs, nextEv, pubDone>>

\* Receiver::recv, when it does not suspend: Lagged when values the receiver
\* has not read were overwritten, else the next value.
Recv(r) ==
    /\ rx[r].state = "live"
    /\ LET c == chan[SystemBus]
           n == rx[r].next
       IN  /\ n < Len(c)
           /\ IF Len(c) - n > BusCapacity
                THEN rx' = [rx EXCEPT ![r].next = Len(c) - BusCapacity,
                                      ![r].lagged = TRUE]
                ELSE rx' = [rx EXCEPT ![r].next = n + 1,
                                      ![r].seen = Append(@, c[n + 1])]
    /\ UNCHANGED <<keepAlive, chan, pubs, nextEv, pubDone>>

\* EventBus::publish up to its first suspension: the first send, and the
\* return when it is Ok.
Publish(b, src) ==
    /\ nextEv <= MaxEvents
    /\ nextEv' = nextEv + 1
    /\ IF SendOk(b)
         THEN /\ chan' = [chan EXCEPT ![b] = Append(@, nextEv)]
              /\ rx' = [r \in Receivers |->
                          IF r \in Subscribers(b)
                            THEN [rx[r] EXCEPT !.due = Append(@, nextEv)]
                            ELSE rx[r]]
              /\ pubDone' = pubDone \cup {Done(nextEv, b, src, "Ok", 1, TRUE)}
              /\ UNCHANGED pubs
         ELSE /\ pubs' = pubs \cup {[ev |-> nextEv, bus |-> b, src |-> src]}
              /\ UNCHANGED <<chan, rx, pubDone>>
    /\ UNCHANGED keepAlive

\* EventBus::publish after a failed first send: with the lock on
\* _keep_alive_rx, a keep-alive receiver that is Some is replaced by a new
\* subscription (one receiver for one receiver), then the second send, and
\* Ok whatever it returned.
PublishRetry(p) ==
    /\ p \in pubs
    /\ pubs' = pubs \ {p}
    /\ IF SendOk(p.bus)
         THEN chan' = [chan EXCEPT ![p.bus] = Append(@, p.ev)]
         ELSE UNCHANGED chan
    /\ pubDone' = pubDone \cup
          {Done(p.ev, p.bus, p.src, PublishResult(SendOk(p.bus)), 2, SendOk(p.bus))}
    /\ UNCHANGED <<keepAlive, rx, nextEv>>

\* stop() of the Supervisor's bus reaches EventBus::cleanup.
EventBusCleanup ==
    /\ keepAlive[SystemBus]
    /\ keepAlive' = KeepAliveCleared(keepAlive, SystemBus)
    /\ UNCHANGED <<chan, rx, pubs, nextEv, pubDone>>

\* A holder of the Supervisor's bus calls publish().
SystemPublish == Publish(SystemBus, "caller")

\* handle_mdns_event publishes a DeviceDiscovered for a ServiceResolved or a
\* ServiceFound, on the bus of the discovery that DiscoveryService::run
\* started with the Supervisor's bus (service.rs:79).
MdnsPublish == Publish(DiscoveryBus(SystemBus), "mdns")

BusSpecInit ==
    /\ HandleInit
    /\ svc = NoService
    /\ calls = 0
    /\ SysOff
    /\ BusInit
    /\ DeviceInit

BusNext ==
    \/ \E r \in Receivers : Subscribe(r) /\ UNCHANGED <<handleVars, clientVars, sysVars, deviceVars>>
    \/ \E r \in Receivers : DropReceiver(r) /\ UNCHANGED <<handleVars, clientVars, sysVars, deviceVars>>
    \/ \E r \in Receivers : Recv(r) /\ UNCHANGED <<handleVars, clientVars, sysVars, deviceVars>>
    \/ SystemPublish /\ UNCHANGED <<handleVars, clientVars, sysVars, deviceVars>>
    \/ MdnsPublish /\ UNCHANGED <<handleVars, clientVars, sysVars, deviceVars>>
    \/ \E p \in pubs : PublishRetry(p) /\ UNCHANGED <<handleVars, clientVars, sysVars, deviceVars>>
    \/ EventBusCleanup /\ UNCHANGED <<handleVars, clientVars, sysVars, deviceVars>>

BusSpec == BusSpecInit /\ [][BusNext]_vars

\* What receiver r has observed and what it will observe next: the values it
\* has received, then the values of the channel from its position on.
Stream(r) ==
    rx[r].seen \o SubSeq(chan[SystemBus], rx[r].next + 1, Len(chan[SystemBus]))

\* Receiver r lags: values it has not read were overwritten.
Lags(r) ==
    rx[r].lagged \/ Len(chan[SystemBus]) - rx[r].next > BusCapacity

\* C8: a live receiver that does not lag observes the events of every
\* publish() called after its subscribe(), each once and in the order of the
\* publish() calls, and no event of a publish() that had returned before its
\* subscribe().
C8_ReceiverSeesPublishedInOrder ==
    \A r \in Receivers :
        (rx[r].state = "live" /\ ~Lags(r))
            => /\ NoDuplicates(Stream(r))
               /\ Restrict(Stream(r), Range(rx[r].due)) = rx[r].due
               /\ Range(Stream(r)) \cap rx[r].before = {}

\* C8 witness: a live receiver that subscribed after a first event was
\* published has received two later events and never lagged.
C8_Witness ==
    \E r \in Receivers :
        /\ rx[r].state = "live" /\ ~Lags(r)
        /\ rx[r].before # {}
        /\ Len(rx[r].seen) >= 2 /\ rx[r].seen = rx[r].due

\* C9: every publish() that has returned returned Ok; an event published
\* with no live subscriber is observed by no receiver that subscribed after
\* that publish() returned.
C9_PublishNeverFails ==
    /\ \A d \in pubDone : d.result = "Ok"
    /\ \A r \in Receivers : \A d \in pubDone :
          (~d.heard /\ d.bus = SystemBus /\ d.ev \in rx[r].before)
              => d.ev \notin Range(Stream(r))

\* C9 witness: publish() has returned with subscribers, with the keep-alive
\* receiver alone and with no receiver at all (both sends failed), and a
\* receiver subscribed after the last two.
C9_Witness ==
    /\ \E d \in pubDone : d.bus = SystemBus /\ d.heard
    /\ \E d \in pubDone, e \in pubDone, r \in Receivers :
          /\ d.bus = SystemBus /\ d.stored /\ ~d.heard
          /\ e.bus = SystemBus /\ e.attempts = 2 /\ ~e.stored
          /\ rx[r].state = "live" /\ {d.ev, e.ev} \subseteq rx[r].before

\* C10: every event the mDNS driver publishes is published on the bus the
\* Supervisor constructed and handed to the discovery service.
C10_MdnsPublishesOnSystemBus ==
    \A d \in pubDone : d.src = "mdns" => (d.bus = SystemBus /\ d.ev \in Range(chan[SystemBus]))

(***************************************************************************)
(* RegSpec: the registry service's run loop (crates/registry/src/lib.rs)   *)
(* receiving bus events one at a time.                                     *)
(***************************************************************************)

\* Number of bus events the registry receives.
MaxRegistryEvents == 4

DeviceIds == {"d1", "d2"}

\* DeviceRegistry is a map keyed by device id (spec 4.9); crates/registry/
\* src/registry.rs is not among the sources.
GetDevice(ds, id) == id \in ds

RegisterDevice(ds, id) == ds \cup {id}

UnregisterDevice(ds, id) == ds \ {id}

\* The DeviceDiscovered arm (lib.rs:49-78) logs the id; the construction of
\* the Device and the register_device call are commented out.
OnDiscovered(ds, id) == ds

\* The DeviceUpdated arm (lib.rs:79-86) registers again the device it got.
OnUpdated(ds, id) == IF GetDevice(ds, id) THEN RegisterDevice(ds, id) ELSE ds

\* The DeviceRemoved arm (lib.rs:87-89).
OnRemoved(ds, id) == UnregisterDevice(ds, id)

Received(kind, id) ==
    /\ Len(regEvents) < MaxRegistryEvents
    /\ regEvents' = Append(regEvents, [kind |-> kind, id |-> id])

\* One iteration of the loop of run() whose rx.recv() yields Ok(event).
RegistryDiscovered(id) ==
    /\ Received("DeviceDiscovered", id)
    /\ devices' = OnDiscovered(devices, id)
    /\ UNCHANGED devRegVars

RegistryUpdated(id) ==
    /\ Received("DeviceUpdated", id)
    /\ devices' = OnUpdated(devices, id)
    /\ UNCHANGED devRegVars

RegistryRemoved(id) ==
    /\ Received("DeviceRemoved", id)
    /\ devices' = OnRemoved(devices, id)
    /\ UNCHANGED devRegVars

RegSpecInit ==
    /\ HandleInit
    /\ svc = NoService
    /\ calls = 0
    /\ SysOff
    /\ BusInit
    /\ DeviceInit

RegOthers ==
    UNCHANGED <<handleVars, clientVars, sysVars, busVars, codecVars, espVars,
                sessVars, mdnsVars>>

RegNext ==
    \/ \E id \in DeviceIds : RegistryDiscovered(id) /\ RegOthers
    \/ \E id \in DeviceIds : RegistryUpdated(id) /\ RegOthers
    \/ \E id \in DeviceIds : RegistryRemoved(id) /\ RegOthers

RegSpec == RegSpecInit /\ [][RegNext]_vars

\* The ids discovered and not removed since, over the first n events.
RECURSIVE DiscoveredNotRemoved(_, _)
DiscoveredNotRemoved(evs, n) ==
    IF n = 0 THEN {}
    ELSE LET e == evs[n]
             before == DiscoveredNotRemoved(evs, n - 1)
         IN  CASE e.kind = "DeviceDiscovered" -> before \cup {e.id}
               [] e.kind = "DeviceRemoved" -> before \ {e.id}
               [] OTHER -> before

\* C11: after any sequence of bus events the registry holds exactly the ids
\* that were discovered and not removed afterwards: a DeviceDiscovered for
\* an id it does not hold inserts the id, a DeviceRemoved deletes it.
C11_RegistryTracksDiscovered ==
    devices = DiscoveredNotRemoved(regEvents, Len(regEvents))

(***************************************************************************)
(* CodecSpec: the frame codec and the varints of the ESPHome wire protocol *)
(* (crates/esphome/src/protocol.rs:148-410).  A byte is a number in        *)
(* 0..255, a buffer a sequence of bytes.  A u64 is kept as ten groups of   *)
(* 7 bits, so that all 64 bits are there: value & 0x7F is the first group, *)
(* value >> 7 drops it, and (b & 0x7F) << shift lands in group             *)
(* shift / 7 + 1, of which the tenth keeps one bit.                        *)
(***************************************************************************)

\* Number of frames encoded into one stream.
MaxCodecFrames == 2

\* The values of a group that the inputs are made of.
GroupValues == {0, 1, 127}

\* 2^32, one of the values of scenario S1 that GroupValues does not make.
TwoTo32 == [g \in Groups |-> IF g = 5 THEN 16 ELSE 0]

\* 2^63 - 1
Max63 == [g \in Groups |-> IF g = 10 THEN 0 ELSE 127]

U64Inputs ==
    {v \in [Groups -> GroupValues] : v[10] \in {0, 1}} \cup {TwoTo32}

\* value >>= 7
Shr7(v) == [g \in Groups |-> IF g < 10 THEN v[g + 1] ELSE 0]

\* value |= ((byte & 0x7F) as u64) << shift, for a shift that is a multiple
\* of 7 and a value whose bits from shift on are 0, as in decode_varuint.
OrShifted(v, byte, shift) ==
    LET g == (shift \div 7) + 1
        low == byte % 128
    IN  [v EXCEPT ![g] = IF g = 10 THEN low % 2 ELSE low]

\* usize and u32 values as u64, and back, for values below 2^28.
FromNat(n) ==
    [g \in Groups |->
        CASE g = 1 -> n % 128
          [] g = 2 -> (n \div 128) % 128
          [] g = 3 -> (n \div 16384) % 128
          [] g = 4 -> (n \div 2097152) % 128
          [] OTHER -> 0]

Below2To28(v) == \A g \in 5..10 : v[g] = 0

ToNat(v) == v[1] + 128 * v[2] + 16384 * v[3] + 2097152 * v[4]

\* n < v, for n below 2^28
LessThan64(n, v) == IF Below2To28(v) THEN n < ToNat(v) ELSE TRUE

\* shift > 63 (protocol.rs:389)
VarintTooLarge(shift) == shift > 63

NoVaruint == [state |-> "None"]

\* decode_varuint (protocol.rs:372-395): Some(value) with the buffer advanced
\* past the varint, or None with the buffer as it was.
RECURSIVE DecodeVaruintFrom(_, _, _, _)
DecodeVaruintFrom(buffer, i, value, shift) ==
    IF i > Len(buffer) THEN NoVaruint
    ELSE LET byte == buffer[i]
             v2 == OrShifted(value, byte, shift)
         IN  IF byte < 128
             THEN [state |-> "Some", value |-> v2,
                   rest |-> SubSeq(buffer, i + 1, Len(buffer))]
             ELSE IF VarintTooLarge(shift + 7) THEN NoVaruint
             ELSE DecodeVaruintFrom(buffer, i + 1, v2, shift + 7)

decode_varuint(buffer) == DecodeVaruintFrom(buffer, 1, Zero64, 0)

\* encode_varuint (protocol.rs:398-410)
RECURSIVE encode_varuint(_)
encode_varuint(value) ==
    LET byte == value[1]
        rest == Shr7(value)
    IN  IF rest # Zero64
        THEN <<byte + 128>> \o encode_varuint(rest)
        ELSE <<byte>>

\* A MessageType is written as its number in the schema: decode()'s match
\* (protocol.rs:198-328) names the variants of 1..123, and `as u64` gives
\* the number back (the enum is generated into proto.rs).
MessageTypes == 1..123

MessageTypeValue(t) == t

KnownMessageType(v) == Below2To28(v) /\ ToNat(v) \in MessageTypes

\* A decode() that returns Ok(None) with what it has consumed gone.
RestoreNothing(original, src) == src

\* *src = original_buf (protocol.rs:182, 192, 333)
Restore(original, src) == original

Incomplete(original, src) ==
    [kind |-> "Incomplete", rest |-> Restore(original, src)]

\* ESPHomeCodec::decode (protocol.rs:155-341): kind is "Frame" for
\* Ok(Some(frame)), "Incomplete" for Ok(None), "Err" for Err(_); rest is the
\* buffer the call leaves.
Decode(src) ==
    IF src = <<>> THEN [kind |-> "Incomplete", rest |-> src]
    ELSE IF src[1] # 0
    THEN [kind |-> "Err", err |-> "Invalid preamble", rest |-> Tail(src)]
    ELSE
      LET size == decode_varuint(Tail(src))
      IN  IF size.state = "None" THEN Incomplete(src, Tail(src))
          ELSE
            LET type == decode_varuint(size.rest)
            IN  IF type.state = "None" THEN Incomplete(src, size.rest)
                ELSE IF ~KnownMessageType(type.value)
                THEN [kind |-> "Err", err |-> "Unknown message type",
                      rest |-> type.rest]
                ELSE IF LessThan64(Len(type.rest), size.value)
                THEN Incomplete(src, type.rest)
                ELSE LET n == ToNat(size.value)
                     IN  [kind |-> "Frame",
                          frame |-> [msg_type |-> ToNat(type.value),
                                     data |-> SubSeq(type.rest, 1, n)],
                          rest |-> SubSeq(type.rest, n + 1, Len(type.rest))]

\* An encoder that writes the message type before the size.
EncodeTypeFirst(item) ==
    <<0>> \o encode_varuint(FromNat(MessageTypeValue(item.msg_type)))
          \o encode_varuint(FromNat(Len(item.data)))
          \o item.data

\* ESPHomeCodec::encode (protocol.rs:347-368)
Encode(item) ==
    <<0>> \o encode_varuint(FromNat(Len(item.data)))
          \o encode_varuint(FromNat(MessageTypeValue(item.msg_type)))
          \o item.data

RECURSIVE EncodeAll(_)
EncodeAll(fs) ==
    IF fs = <<>> THEN <<>> ELSE Encode(Head(fs)) \o EncodeAll(Tail(fs))

\* Payloads: empty, a byte equal to the preamble, and bytes with the
\* continuation bit.
Payloads == {<<>>, <<0>>, <<222, 173, 0>>}

Frame(t, d) == [msg_type |-> t, data |-> d]

\* Every message type alone, and streams of up to MaxCodecFrames frames of
\* three of them.
FrameInputs ==
    {<<Frame(t, d)>> : t \in MessageTypes, d \in Payloads}
    \cup UNION {[1..n -> {Frame(t, d) : t \in {7, 29, 123}, d \in Payloads}] :
                n \in 2..MaxCodecFrames}

CodecInit ==
    /\ HandleInit
    /\ svc = NoService
    /\ calls = 0
    /\ SysOff
    /\ BusInit
    /\ RegistryInit
    /\ EspInit
    /\ SessionIdle
    /\ MdnsIdle
    /\ cBytes = <<>>
    /\ cDecoded = NotRun
    /\ stream = <<>>
    /\ buf = <<>>
    /\ decoded = <<>>
    /\ lastDecode = NoDecode
    /\ \/ cValue \in U64Inputs /\ frames = <<>>
       \/ cValue = Zero64 /\ frames \in FrameInputs

EncodeValue ==
    /\ frames = <<>>
    /\ cBytes = <<>>
    /\ cBytes' = encode_varuint(cValue)
    /\ UNCHANGED <<cValue, cDecoded, frames, stream, buf, decoded, lastDecode>>

DecodeValue ==
    /\ cBytes # <<>>
    /\ cDecoded = NotRun
    /\ cDecoded' = decode_varuint(cBytes)
    /\ UNCHANGED <<cValue, cBytes, frames, stream, buf, decoded, lastDecode>>

Untouched == stream = <<>> /\ buf = <<>> /\ decoded = <<>> /\ lastDecode = NoDecode

EncodeFrames ==
    /\ frames # <<>>
    /\ Untouched
    /\ stream' = EncodeAll(frames)
    /\ UNCHANGED <<cValue, cBytes, cDecoded, frames, buf, decoded, lastDecode>>

\* The transport hands the next k bytes to the decoder's buffer; Framed
\* reads again only after decode() returned Ok(None).
Feed(k) ==
    /\ k \in 1..Len(stream)
    /\ Decode(buf).kind = "Incomplete"
    /\ buf' = buf \o SubSeq(stream, 1, k)
    /\ stream' = SubSeq(stream, k + 1, Len(stream))
    /\ UNCHANGED <<cValue, cBytes, cDecoded, frames, decoded, lastDecode>>

\* One call of decode() on the buffer.
DecodeStep ==
    /\ buf # <<>>
    /\ lastDecode.src # buf \/ lastDecode.kind # "Incomplete"
    /\ LET r == Decode(buf)
       IN  /\ lastDecode' = [src |-> buf, kind |-> r.kind,
                              err |-> IF r.kind = "Err" THEN r.err ELSE "none",
                              rest |-> r.rest]
           /\ buf' = r.rest
           /\ decoded' = IF r.kind = "Frame" THEN Append(decoded, r.frame)
                         ELSE decoded
    /\ UNCHANGED <<cValue, cBytes, cDecoded, frames, stream>>

CodecOthers ==
    UNCHANGED <<handleVars, clientVars, sysVars, busVars, regVars, espVars,
                sessVars, mdnsVars>>

CodecNext ==
    \/ EncodeValue /\ CodecOthers
    \/ DecodeValue /\ CodecOthers
    \/ EncodeFrames /\ CodecOthers
    \/ \E k \in 1..Len(stream) : Feed(k) /\ CodecOthers
    \/ DecodeStep /\ CodecOthers

CodecSpec == CodecInit /\ [][CodecNext]_vars

\* The frame the decoder is to return next, and its encoding.
NextFrame == frames[Len(decoded) + 1]

ProperPrefix(a, b) == Len(a) < Len(b) /\ a = SubSeq(b, 1, Len(a))

C20_ChunkedDecodeSameFrames ==
    /\ IsPrefix(decoded, frames)
    /\ lastDecode.kind # "Err"
    /\ lastDecode.kind = "Incomplete" => lastDecode.rest = lastDecode.src
    /\ (frames # <<>> /\ ~Untouched /\ stream = <<>>
          /\ Decode(buf).kind = "Incomplete") =>
           (decoded = frames /\ buf = <<>>)
    /\ (Len(decoded) < Len(frames) /\ ProperPrefix(buf, Encode(NextFrame))) =>
           Decode(buf) = [kind |-> "Incomplete", rest |-> buf]

\* C20 witness: two frames arrived in chunks that cut the second one, the
\* decoder was called on the part of it that had arrived, and both frames
\* came out.
C20_Witness ==
    /\ Len(frames) = 2
    /\ decoded = frames
    /\ stream = <<>>
    /\ lastDecode.kind = "Frame"
    /\ Len(lastDecode.src) = Len(Encode(frames[2]))
    /\ frames[2].data # <<>>

(***************************************************************************)
(* CodecFaultSpec: the decoder on streams a peer can write that the        *)
(* encoder never writes: frames of a message type outside 1..123 among     *)
(* frames of a known one, and varints of ten bytes and more.               *)
(***************************************************************************)

\* A message-type number that decode()'s match (protocol.rs:198-328) leaves
\* to its `_` arm.
UnknownTypeNumbers == {124}

FaultFrames == {Frame(t, d) : t \in {7} \cup UnknownTypeNumbers, d \in Payloads}

FaultFrameInputs == UNION {[1..n -> FaultFrames] : n \in 1..MaxCodecFrames}

\* n bytes with the continuation bit and seven value bits set.
Continued(n) == [i \in 1..n |-> 255]

\* Varints of ten bytes: the tenth byte is the last one and carries no bit
\* (0), bit 63 (1) or bits 64 to 69 (126), or it has the continuation bit
\* (128, 255); and one of eleven bytes.
RawVarints ==
    {Continued(9) \o <<b>> : b \in {0, 1, 126, 128, 255}}
    \cup {Continued(10) \o <<1>>}

\* The first nine bytes continue and the tenth continues or carries a bit:
\* the varint carries more than 63 value bits.
TooLong(bytes) ==
    /\ Len(bytes) >= 10
    /\ \A i \in 1..9 : bytes[i] >= 128
    /\ bytes[10] # 0

\* A preamble, then a varint of RawVarints as the size or as the message
\* type, then a frame of a known type.
RawStreams ==
    {<<0>> \o v \o <<7>> \o Encode(Frame(7, <<>>)) : v \in RawVarints}
    \cup {<<0, 0>> \o v \o Encode(Frame(7, <<>>)) : v \in RawVarints}

CodecFaultInit ==
    /\ HandleInit
    /\ svc = NoService
    /\ calls = 0
    /\ SysOff
    /\ BusInit
    /\ RegistryInit
    /\ EspInit
    /\ SessionIdle
    /\ MdnsIdle
    /\ cValue = Zero64
    /\ cDecoded = NotRun
    /\ buf = <<>>
    /\ decoded = <<>>
    /\ lastDecode = NoDecode
    /\ \/ cBytes \in RawVarints /\ frames = <<>> /\ stream = <<>>
       \/ cBytes = <<>> /\ frames \in FaultFrameInputs /\ stream = <<>>
       \/ cBytes = <<>> /\ frames = <<>> /\ stream \in RawStreams

CodecFaultNext ==
    \/ DecodeValue /\ CodecOthers
    \/ EncodeFrames /\ CodecOthers
    \/ \E k \in 1..Len(stream) : Feed(k) /\ CodecOthers
    \/ DecodeStep /\ CodecOthers

CodecFaultSpec == CodecFaultInit /\ [][CodecFaultNext]_vars

\* buf without its first n bytes
Drop(b, n) == SubSeq(b, n + 1, Len(b))

\* C21: on a buffer that starts with a whole frame of an unknown message
\* type decode() reports the unknown-message-type error and leaves the
\* buffer at the byte after the frame's payload, where the next frame's
\* preamble is; on a buffer that holds only a part of such a frame it
\* returns Ok(None) and consumes nothing.
C21_UnknownTypeConsumesFrame ==
    \A t \in UnknownTypeNumbers, d \in Payloads :
        LET e == Encode(Frame(t, d))
        IN  /\ IsPrefix(e, lastDecode.src) =>
                /\ lastDecode.kind = "Err"
                /\ lastDecode.err = "Unknown message type"
                /\ lastDecode.rest = Drop(lastDecode.src, Len(e))
            /\ (lastDecode.kind # "none" /\ ProperPrefix(lastDecode.src, e)) =>
                /\ lastDecode.kind = "Incomplete"
                /\ lastDecode.rest = lastDecode.src

\* C22: a varint that carries more than 63 value bits is rejected with an
\* error: decode_varuint returns neither None, which decode() takes for an
\* incomplete frame, nor a value; and decode() on a frame whose size or
\* message type is such a varint returns the VarintTooLong error, never
\* Ok(None).
C22_VarintTooLongRejected ==
    /\ (cDecoded # NotRun /\ TooLong(cBytes)) => cDecoded.state = "TooLong"
    /\ \A v \in {r \in RawVarints : TooLong(r)} :
           (\/ IsPrefix(<<0>> \o v, lastDecode.src)
            \/ IsPrefix(<<0, 0>> \o v, lastDecode.src)) =>
               /\ lastDecode.kind = "Err"
               /\ lastDecode.err = "VarintTooLong"

(***************************************************************************)
(* EspSpec: one ESPHomeProtocolClient (crates/esphome/src/protocol.rs)     *)
(* behind an ESPHomeConnection (crates/esphome/src/connection.rs), its     *)
(* connection task, its callers, its subscribers and the peer.  The        *)
(* payload of the n-th frame the peer writes is the byte n.                *)
(***************************************************************************)

\* is_response (protocol.rs:56-138), by message type number.
ResponseTypes ==
    {2, 4, 6, 8, 10, 12, 13, 14, 15, 16, 17, 18, 19, 21, 22, 23, 24, 25, 26,
     27, 29, 35, 37, 39, 40, 41, 43, 44, 46, 47, 49, 50, 52, 53, 55, 56, 58,
     59, 61, 63, 64, 67, 69, 71, 72, 74, 79, 81, 82, 83, 84, 85, 86, 88, 91,
     92, 93, 94, 95, 97, 98, 100, 101, 103, 104, 106, 107, 108, 109, 110,
     112, 113, 115, 116, 117, 120, 122}

IsResponse(t) == t \in ResponseTypes

\* expected_response (protocol.rs:467-479)
ExpectedResponse(t) ==
    CASE t = 1 -> 2
      [] t = 3 -> 4
      [] t = 5 -> 6
      [] t = 7 -> 8
      [] t = 9 -> 10
      [] OTHER -> t

\* The requests made with send_and_receive once connected: PingRequest by
\* ping() and ListEntitiesRequest by list_entity_type().
RequestTypes == {7, 11}

\* What the peer sends: PingRequest (no response type) and PingResponse.
InboundTypes == {7, 8}

\* The bytes of a write of the peer that is no frame: a byte that is not
\* the preamble, a frame of message type 124, and a size varint of more
\* than ten bytes.
BadPreamble == <<1>>

UnknownType == <<0, 0, 124>>

OverlongVarint == [i \in 1..12 |-> IF i = 1 THEN 0 ELSE 255]

Garbage == {BadPreamble, UnknownType, OverlongVarint}

\* The receiver of a oneshot whose sender is dropped, or sends Err, returns
\* an error to a caller that is still awaiting it.
Failed(r, cs, msg) ==
    [c \in CallIds |->
        IF c \in cs /\ r[c].state = "waiting"
        THEN [r[c] EXCEPT !.state = "err", !.error = msg]
        ELSE r[c]]

\* sender.send(Ok(frame.data)): the result is ignored, the payload is lost
\* when the receiver was dropped.
Fulfilled(r, c, type, n) ==
    [r EXCEPT ![c] = IF @.state = "waiting"
                     THEN [@ EXCEPT !.state = "ok", !.resp = type, !.data = n]
                     ELSE @]

\* An insert that leaves an earlier slot of the key in place.
PendingInsertKeepOld(p, key, c) == p \cup {[key |-> key, call |-> c]}

\* responses.insert(expected_response, sender) (protocol.rs:481-482)
PendingInsert(p, key, c) ==
    {e \in p : e.key # key} \cup {[key |-> key, call |-> c]}

SlotsOf(p, key) == {e \in p : e.key = key}

\* A dispatch that hands every frame to the subscribers.
ClaimsNothing(type, slots) == FALSE

\* frame.msg_type.is_response() and responses.remove(&frame.msg_type) is
\* Some (protocol.rs:497-499)
Claims(type, slots) == IsResponse(type) /\ slots # {}

QueuedCalls(q) == {q[i].sender : i \in 1..Len(q)}

\* sender.capacity() > 0 (protocol.rs:507, 520)
HasCapacity(q) == Len(q) < QueueCapacity

\* A send that makes room by dropping the oldest frame of a full queue.
TrySendEvicting(q, n) ==
    IF HasCapacity(q) THEN Append(q, n) ELSE Append(Tail(q), n)

\* if sender.capacity() > 0 { let _ = sender.try_send(..) }
TrySend(q, n) == IF HasCapacity(q) THEN Append(q, n) ELSE q

NextCall == 1 + Cardinality({c \in CallIds : rpc[c].state # "none"})

\* connect() returned Ok (connection.rs:43-58): ensure_connected connected
\* the socket and spawned the task (protocol.rs:436-556), the handshake was
\* answered, and connected = true.
ConnectOk ==
    /\ ~txSome
    /\ txSome' = TRUE
    /\ espTask' = "running"
    /\ connected' = TRUE
    /\ UNCHANGED <<exitCause, outbound, pending_responses, message_callbacks,
                   rpc, wire, peer, peerSent, dispatched>>

\* ping() or list_entity_type() (connection.rs:74-83, 141-150) up to
\* response_rx.await of send_and_receive (protocol.rs:559-595).  The client
\* is borrowed mutably by a call, so no other call is awaiting.
SendAndReceive(t) ==
    /\ connected
    /\ \A c \in CallIds : rpc[c].state # "waiting"
    /\ NextCall \in CallIds
    /\ IF espTask = "running"
       THEN /\ outbound' = Append(outbound, [msg_type |-> t, sender |-> NextCall])
            /\ rpc' = [rpc EXCEPT ![NextCall] =
                          [@ EXCEPT !.req = t, !.state = "waiting"]]
       ELSE /\ rpc' = [rpc EXCEPT ![NextCall] =
                          [@ EXCEPT !.req = t, !.state = "err",
                                    !.error = "Failed to send message"]]
            /\ UNCHANGED outbound
    /\ UNCHANGED <<txSome, espTask, exitCause, connected, pending_responses,
                   message_callbacks, wire, peer, peerSent, dispatched>>

\* The future of send_and_receive is dropped while it awaits.
Cancel(c) ==
    /\ rpc[c].state = "waiting"
    /\ rpc' = [rpc EXCEPT ![c].state = "cancelled"]
    /\ UNCHANGED <<txSome, espTask, exitCause, connected, outbound,
                   pending_responses, message_callbacks, wire, peer, peerSent,
                   dispatched>>

\* The task leaves its loop and runs its clean-up (protocol.rs:543-549):
\* the pending senders send Err, and rx is dropped with what it holds.
TaskExit(cause, p, r, q) ==
    /\ espTask' = "exited"
    /\ exitCause' = cause
    /\ pending_responses' = {}
    /\ outbound' = <<>>
    /\ rpc' = Failed(Failed(r, {e.call : e \in p}, "Connection closed"),
                     QueuedCalls(q), "Failed to receive response")

\* The response_sender of a frame queued by send(): None (protocol.rs:626).
NoSender == 0

\* The rx.recv() branch of the task's select! (protocol.rs:463-490).
TaskOutbound ==
    /\ espTask = "running"
    /\ outbound # <<>>
    /\ LET m == Head(outbound)
           key == ExpectedResponse(m.msg_type)
           some == m.sender # NoSender
           p1 == IF some THEN PendingInsert(pending_responses, key, m.sender)
                 ELSE pending_responses
           r0 == IF some
                 THEN Failed(rpc,
                             {e.call : e \in SlotsOf(pending_responses, key)},
                             "Failed to receive response")
                 ELSE rpc
           r1 == IF some
                 THEN [r0 EXCEPT ![m.sender].registered = TRUE,
                                 ![m.sender].regAt = Len(dispatched)]
                 ELSE r0
       IN  \E sent \in IF peer = "open" THEN {TRUE} ELSE {TRUE, FALSE} :
             IF sent
             THEN /\ pending_responses' = p1
                  /\ rpc' = r1
                  /\ outbound' = Tail(outbound)
                  /\ UNCHANGED <<espTask, exitCause>>
             ELSE TaskExit("Failed to send frame", p1, r1, Tail(outbound))
    /\ UNCHANGED <<txSome, connected, message_callbacks, wire, peer, peerSent,
                   dispatched>>

\* What the model keeps of a payload: its last byte, 0 for the empty one.
PayloadId(data) == IF data = <<>> THEN 0 ELSE data[Len(data)]

\* The dispatch of a decoded frame (protocol.rs:495-529).  The entry added
\* to dispatched says what the frame met: the calls with a slot under its
\* type, the subscribers registered for it and those whose queue was full;
\* and which call's slot, if any, was taken out and whether that call was
\* still awaiting it.
Dispatch(frame) ==
    LET type == frame.msg_type
        n == PayloadId(frame.data)
        slots == SlotsOf(pending_responses, type)
        claimed == Claims(type, slots)
        slot == CHOOSE e \in slots : TRUE
        registered == {s \in AllCallbackIds : message_callbacks[s].type = type}
        full == {s \in registered : ~HasCapacity(message_callbacks[s].queue)}
    IN  /\ IF claimed
           THEN /\ pending_responses' = pending_responses \ {slot}
                /\ rpc' = Fulfilled(rpc, slot.call, type, n)
                /\ UNCHANGED message_callbacks
           ELSE /\ message_callbacks' =
                      [s \in AllCallbackIds |->
                          IF s \in registered
                          THEN LET q == message_callbacks[s].queue
                               IN  [message_callbacks[s] EXCEPT
                                      !.queue = TrySend(q, n),
                                      !.got = IF TrySend(q, n) # q
                                              THEN Append(@, n) ELSE @]
                          ELSE message_callbacks[s]]
                /\ UNCHANGED <<pending_responses, rpc>>
        /\ dispatched' = Append(dispatched,
               [type |-> type, n |-> n,
                slotted |-> {e.call : e \in slots},
                registered |-> registered, full |-> full,
                slot |-> IF claimed THEN slot.call ELSE 0,
                live |-> claimed /\ rpc[slot.call].state = "waiting"])
        /\ UNCHANGED <<espTask, exitCause, outbound>>

\* The stream.next() branch of the task's select! (protocol.rs:493-539):
\* Framed calls decode() on what it has read, and at the end of the stream
\* yields None, or an error when bytes are left over.
TaskInbound ==
    /\ espTask = "running"
    /\ LET r == Decode(wire)
       IN  CASE r.kind = "Frame" ->
                  /\ Dispatch(r.frame)
                  /\ wire' = r.rest
             [] r.kind = "Err" ->
                  /\ TaskExit("Frame error", pending_responses, rpc, outbound)
                  /\ wire' = r.rest
                  /\ UNCHANGED <<message_callbacks, dispatched>>
             [] OTHER ->
                  /\ peer = "closed"
                  /\ TaskExit(IF wire = <<>> THEN "EOF" ELSE "bytes remaining",
                              pending_responses, rpc, outbound)
                  /\ UNCHANGED <<wire, message_callbacks, dispatched>>
    /\ UNCHANGED <<txSome, connected, peer, peerSent>>

\* The peer writes a frame, or bytes that are no frame, once the task has
\* decoded what the earlier writes hold: bytes that wait in the buffer
\* change nothing until decode() reaches them.
PeerSend(bytes) ==
    /\ espTask = "running"
    /\ peer = "open"
    /\ peerSent < MaxInbound
    /\ Decode(wire).kind = "Incomplete"
    /\ peerSent' = peerSent + 1
    /\ wire' = wire \o bytes
    /\ UNCHANGED <<txSome, espTask, exitCause, connected, outbound,
                   pending_responses, message_callbacks, rpc, peer, dispatched>>

PeerFrame(t) == PeerSend(Encode(Frame(t, <<peerSent + 1>>)))

\* The peer closes the socket.
PeerClose ==
    /\ espTask = "running"
    /\ peer = "open"
    /\ peer' = "closed"
    /\ UNCHANGED <<txSome, espTask, exitCause, connected, outbound,
                   pending_responses, message_callbacks, rpc, wire, peerSent,
                   dispatched>>

\* register_callback (protocol.rs:637-651) as subscribe_logs calls it
\* (connection.rs:178-198): connected, and after a send that succeeded,
\* which it does while the task holds rx.
RegisterCallback(s, t) ==
    /\ connected
    /\ espTask = "running"
    /\ message_callbacks[s].type = 0
    /\ message_callbacks' = [message_callbacks EXCEPT ![s].type = t]
    /\ UNCHANGED <<txSome, espTask, exitCause, connected, outbound,
                   pending_responses, rpc, wire, peer, peerSent, dispatched>>

\* A subscriber takes the next payload out of its queue.
CallbackRecv(s) ==
    /\ message_callbacks[s].queue # <<>>
    /\ message_callbacks' = [message_callbacks EXCEPT
                               ![s].queue = Tail(@), ![s].recvd = @ + 1]
    /\ UNCHANGED <<txSome, espTask, exitCause, connected, outbound,
                   pending_responses, rpc, wire, peer, peerSent, dispatched>>

EspSpecInit ==
    /\ HandleInit
    /\ svc = NoService
    /\ calls = 0
    /\ SysOff
    /\ BusInit
    /\ DeviceInit

EspOthers ==
    UNCHANGED <<handleVars, clientVars, sysVars, busVars, regVars, codecVars,
                sessVars, mdnsVars>>

\* EspSpec has one subscriber; EspFanoutSpec below has them all.
EspNext ==
    \/ ConnectOk /\ EspOthers
    \/ \E t \in RequestTypes : SendAndReceive(t) /\ EspOthers
    \/ \E c \in CallIds : Cancel(c) /\ EspOthers
    \/ TaskOutbound /\ EspOthers
    \/ TaskInbound /\ EspOthers
    \/ \E t \in InboundTypes : PeerFrame(t) /\ EspOthers
    \/ \E g \in Garbage : PeerSend(g) /\ EspOthers
    \/ PeerClose /\ EspOthers
    \/ \E t \in InboundTypes : RegisterCallback("s1", t) /\ EspOthers
    \/ CallbackRecv("s1") /\ EspOthers

EspSpec == EspSpecInit /\ [][EspNext]_vars

(***************************************************************************)
(* EspFanoutSpec: the same client with every subscriber, one ping() and a  *)
(* peer that sends frames only.                                            *)
(***************************************************************************)

FanoutNext ==
    \/ ConnectOk /\ EspOthers
    \/ NextCall = 1 /\ SendAndReceive(7) /\ EspOthers
    \/ TaskOutbound /\ EspOthers
    \/ TaskInbound /\ EspOthers
    \/ \E t \in InboundTypes : PeerFrame(t) /\ EspOthers
    \/ \E s \in CallbackIds, t \in InboundTypes : RegisterCallback(s, t) /\ EspOthers
    \/ \E s \in CallbackIds : CallbackRecv(s) /\ EspOthers

EspFanoutSpec == EspSpecInit /\ [][FanoutNext]_vars

(***************************************************************************)
(* EspFairSpec: the executor runs the connection task whenever one of the  *)
(* branches of its select! is ready.  Nothing obliges the peer to write or *)
(* to close, nor a caller to call or to cancel.                            *)
(***************************************************************************)

EspFairSpec ==
    /\ EspSpec
    /\ WF_vars(TaskOutbound /\ EspOthers)
    /\ WF_vars(TaskInbound /\ EspOthers)

Key(c) == ExpectedResponse(rpc[c].req)

Entries == 1..Len(dispatched)

\* C12: an inbound frame of a response type that meets a pending slot under
\* its type takes that slot out and fulfils it with its payload, and reaches
\* no subscriber; so every send_and_receive that completed with Ok holds a
\* payload of the expected response type of its request.
C12_ResponseGoesToPendingSlot ==
    /\ \A i \in Entries :
         LET e == dispatched[i]
         IN  (IsResponse(e.type) /\ e.slotted # {}) =>
                 /\ e.slot \in e.slotted
                 /\ [key |-> e.type, call |-> e.slot] \notin pending_responses
                 /\ e.live => /\ rpc[e.slot].state = "ok"
                              /\ rpc[e.slot].resp = e.type
                              /\ rpc[e.slot].data = e.n
                 /\ \A s \in CallbackIds : e.n \notin Range(message_callbacks[s].got)
    /\ \A c \in CallIds : rpc[c].state = "ok" => rpc[c].resp = Key(c)

\* C12 witness: a PingResponse met the slot of a ping() that was awaiting it
\* while a subscriber was registered for PingResponse.
C12_Witness ==
    \E i \in Entries :
        /\ dispatched[i].slot # 0
        /\ dispatched[i].live
        /\ dispatched[i].registered # {}
        /\ rpc[dispatched[i].slot].state = "ok"

\* The payloads of the frames that were offered to subscriber s and found
\* room in its queue, among the first k dispatched, in order.
RECURSIVE Accepted(_, _)
Accepted(s, k) ==
    IF k = 0 THEN <<>>
    ELSE LET e == dispatched[k]
         IN  IF e.slot = 0 /\ s \in e.registered /\ s \notin e.full
             THEN Append(Accepted(s, k - 1), e.n)
             ELSE Accepted(s, k - 1)

RegisteredBefore(i) ==
    {c \in CallIds : rpc[c].registered /\ Key(c) = dispatched[i].type
                     /\ rpc[c].regAt < i}

Max(S) == CHOOSE x \in S : \A y \in S : y <= x

\* C14: pending_responses holds at most one slot per response type; a
\* request stored under a type that an earlier request is pending under
\* replaces the earlier slot, the earlier call no longer waits, and a
\* response of the type goes to the later call.
C14_OneSlotPerResponseType ==
    /\ \A e1, e2 \in pending_responses : e1.key = e2.key => e1 = e2
    /\ \A c1, c2 \in CallIds :
         (c1 < c2 /\ rpc[c1].registered /\ rpc[c2].registered /\ Key(c1) = Key(c2)) =>
             /\ [key |-> Key(c1), call |-> c1] \notin pending_responses
             /\ rpc[c1].state # "waiting"
    /\ \A i \in Entries :
         dispatched[i].slot # 0 => dispatched[i].slot = Max(RegisteredBefore(i))

\* C14 witness: two requests were stored under the same response type, the
\* earlier still pending when the later came, and the later call got the
\* response.
C14_Witness ==
    \E c1, c2 \in CallIds :
        /\ c1 < c2
        /\ rpc[c1].registered /\ rpc[c2].registered
        /\ Key(c1) = Key(c2)
        /\ rpc[c1].state = "cancelled"
        /\ rpc[c2].state = "ok"
        /\ \A i \in Entries : dispatched[i].slot # c1

\* C15: every send_and_receive call completes, with the payload or with an
\* error (Timeout, Disconnected), whatever its request type: a call that
\* awaits its response does not await it for ever.
C15_SendAndReceiveCompletes ==
    \A c \in CallIds :
        (rpc[c].state = "waiting") ~> (rpc[c].state # "waiting")

\* C16: once a send_and_receive call is cancelled its slot is no longer in
\* pending_responses, and no later response is taken by the slot of a call
\* that no longer awaits it.
C16_CancelRemovesSlot ==
    /\ \A c \in CallIds :
         rpc[c].state = "cancelled" =>
             [key |-> Key(c), call |-> c] \notin pending_responses
    /\ \A i \in Entries : dispatched[i].slot # 0 => dispatched[i].live

\* C17: once the connection task has exited on an I/O failure or on the end
\* of the stream, no slot is pending and no call awaits, no subscription
\* queue is left open (no sender is left in message_callbacks), and the
\* connection is no longer connected.
C17_TaskExitDisconnects ==
    (espTask = "exited" /\ exitCause \in {"EOF", "bytes remaining", "Failed to send frame"}) =>
        /\ pending_responses = {}
        /\ \A c \in CallIds : rpc[c].state # "waiting"
        /\ \A s \in CallbackIds : message_callbacks[s].type = 0
        /\ ~connected

\* C18: a framing error on an inbound frame (bad preamble, over-long varint,
\* unknown message type) does not end the connection task.
C18_FramingErrorSurvived ==
    exitCause # "Frame error"

(***************************************************************************)
(* The operations of ESPHomeConnection (crates/esphome/src/connection.rs)  *)
(* on the protocol client: the handshake, list_entities, subscribe_states  *)
(* and subscribe_logs, with the tasks they spawn.  An operation borrows    *)
(* the connection mutably, so one operation is pending at a time.          *)
(***************************************************************************)

\* The message type a queue is registered for (connection.rs:232-325,
\* 102-105, 356-360, 194-197).
CallbackType(s) ==
    CASE s = "binary_sensor" -> 12
      [] s = "sensor" -> 16
      [] s = "done" -> 19
      [] s = "binary_sensor_state" -> 21
      [] s \in LogIds -> 29

\* register_callback (protocol.rs:637-651): the sender of a new channel is
\* pushed onto the entry of msg_type; s names the new channel.
register_callback(mc, s, t) == [mc EXCEPT ![s].type = t]

\* A removal that takes one sender out of the entry and leaves the others.
RemoveOneSender(mc, t) ==
    IF \E s \in DOMAIN mc : mc[s].type = t
    THEN [mc EXCEPT ![CHOOSE s \in DOMAIN mc : mc[s].type = t].type = 0]
    ELSE mc

\* remove_callbacks (protocol.rs:654-657): callbacks.remove(&msg_type) drops
\* the entry with every sender in it; what a queue holds stays readable.
remove_callbacks(mc, t) ==
    [s \in DOMAIN mc |->
        IF mc[s].type = t THEN [mc[s] EXCEPT !.type = 0] ELSE mc[s]]

RegisterAll(mc, ids) ==
    [s \in DOMAIN mc |->
        IF s \in ids THEN register_callback(mc, s, CallbackType(s))[s]
        ELSE mc[s]]

RECURSIVE RemoveTypes(_, _)
RemoveTypes(mc, types) ==
    IF types = {} THEN mc
    ELSE LET t == CHOOSE x \in types : TRUE
         IN  RemoveTypes(remove_callbacks(mc, t), types \ {t})

\* A clean-up that leaves the queue of ListEntitiesDoneResponse in place.
CleanupEntityTypesOnly(mc) ==
    RemoveTypes(mc, {CallbackType(s) : s \in EntityIds})

\* cleanup_entity_callbacks (connection.rs:469-518)
cleanup_entity_callbacks(mc) ==
    RemoveTypes(mc, {CallbackType(s) : s \in EntityIds \cup {"done"}})

\* message_callbacks as the HashMap it is: the senders under each type.
Table(mc) ==
    [t \in {CallbackType(s) : s \in SessionCallbackIds} \cup InboundTypes |->
        {s \in DOMAIN mc : mc[s].type = t}]

\* ConnectResponse { invalid_password } as prost writes it: field 1 as a
\* varint, omitted when false.
ConnectResponseBytes(invalid) == IF invalid THEN <<8, 1>> ELSE <<>>

\* response.invalid_password (connection.rs:52) of the payload the call got.
InvalidPassword(n) == n = 1

OpReturned(name, result) ==
    [NoOp EXCEPT !.name = name, !.pc = "returned", !.result = result,
                 !.was = connected]

OpAwaiting(name) ==
    [NoOp EXCEPT !.name = name, !.pc = "awaiting", !.was = connected]

\* A check of connected that lets the request go out before it fails.
NotConnectedAfterSend(name) ==
    /\ sessOp' = OpReturned(name, "Not connected")
    /\ outbound' = Append(outbound, [msg_type |-> 11, sender |-> NoSender])
    /\ UNCHANGED <<txSome, espTask, exitCause, connected, pending_responses,
                   message_callbacks, rpc, wire, peer, peerSent, dispatched,
                   handlers, entityRx, receivers>>

\* if !self.connected { return Err(ConnectionError("Not connected")) }
\* (connection.rs:96-98, 156-158, 182-184)
NotConnected(name) ==
    /\ sessOp' = OpReturned(name, "Not connected")
    /\ UNCHANGED <<espVars, handlers, entityRx, receivers>>

\* hello(), connect() and disconnect() (connection.rs:32-72) up to
\* response_rx.await: ensure_connected connects the socket and spawns the
\* task when tx is None, and fails when nothing listens (up = FALSE); then
\* the request goes onto tx, which fails when the task has dropped rx.
Request(name, t, up) ==
    /\ sessOp.pc # "awaiting"
    /\ NextCall \in CallIds
    /\ txSome \/ up \in BOOLEAN
    /\ IF ~txSome /\ ~up
       THEN /\ sessOp' = OpReturned(name, "Failed to connect to device")
            /\ UNCHANGED espVars
       ELSE /\ txSome' = TRUE
            /\ espTask' = IF txSome THEN espTask ELSE "running"
            /\ exitCause' = IF txSome THEN exitCause ELSE "none"
            /\ wire' = IF txSome THEN wire ELSE <<>>
            /\ peer' = IF txSome THEN peer ELSE "open"
            /\ IF espTask' = "running"
               THEN /\ outbound' = Append(outbound,
                                      [msg_type |-> t, sender |-> NextCall])
                    /\ rpc' = [rpc EXCEPT ![NextCall] =
                                  [@ EXCEPT !.req = t, !.state = "waiting"]]
                    /\ sessOp' = [OpAwaiting(name) EXCEPT !.c = NextCall]
               ELSE /\ rpc' = [rpc EXCEPT ![NextCall] =
                                  [@ EXCEPT !.req = t, !.state = "err",
                                            !.error = "Failed to send message"]]
                    /\ sessOp' = OpReturned(name, "Failed to send message")
                    /\ UNCHANGED outbound
            /\ UNCHANGED <<connected, pending_responses, message_callbacks,
                           peerSent, dispatched>>
    /\ UNCHANGED <<handlers, entityRx, receivers>>

\* ESPHomeConnection::new(config) (connection.rs:222-228) with something
\* listening on config.address or not: ESPHomeProtocolClient::new stores the
\* address with tx None (protocol.rs:425-433); no socket is opened.
New(up) ==
    /\ sessOp = NoOp
    /\ sessOp' = [OpReturned("new", "Ok") EXCEPT !.listening = up]
    /\ UNCHANGED <<espVars, handlers, entityRx, receivers>>

Hello(up) == Request("hello", 1, up)

Connect(up) == Request("connect", 3, up)

Disconnect(up) == Request("disconnect", 5, up)

\* close() (protocol.rs:660-679): tx = None, the task is aborted and rx
\* dropped with it, the pending senders send Err, the callbacks are cleared.
Close ==
    /\ txSome' = FALSE
    /\ espTask' = IF espTask = "running" THEN "aborted" ELSE espTask
    /\ outbound' = <<>>
    /\ pending_responses' = {}
    /\ rpc' = Failed(Failed(rpc, {e.call : e \in pending_responses},
                            "Connection closed"),
                     QueuedCalls(outbound), "Failed to receive response")
    /\ message_callbacks' =
           [s \in AllCallbackIds |-> [message_callbacks[s] EXCEPT !.type = 0]]

\* hello(), connect() and disconnect() from the outcome of
\* response_rx.await on (protocol.rs:591-601; connection.rs:52-57, 68-71).
Resume ==
    /\ sessOp.pc = "awaiting"
    /\ sessOp.name \in {"hello", "connect", "disconnect"}
    /\ rpc[sessOp.c].state \in {"ok", "err"}
    /\ LET r == rpc[sessOp.c]
           result ==
             CASE r.state = "err" -> r.error
               [] sessOp.name = "connect" /\ InvalidPassword(r.data) ->
                    "AuthenticationError"
               [] OTHER -> "Ok"
       IN  /\ sessOp' = [sessOp EXCEPT !.pc = "returned", !.result = result]
           /\ CASE result = "Ok" /\ sessOp.name = "connect" ->
                     /\ connected' = TRUE
                     /\ UNCHANGED <<txSome, espTask, outbound,
                                    pending_responses, rpc, message_callbacks>>
                [] result = "Ok" /\ sessOp.name = "disconnect" ->
                     /\ connected' = FALSE
                     /\ Close
                [] OTHER ->
                     UNCHANGED <<connected, txSome, espTask, outbound,
                                 pending_responses, rpc, message_callbacks>>
    /\ UNCHANGED <<exitCause, wire, peer, peerSent, dispatched, handlers,
                   entityRx, receivers>>

\* The peer answers with HelloResponse, ConnectResponse or
\* DisconnectResponse.
PeerAnswer(t, invalid) ==
    /\ invalid => t = 4
    /\ PeerSend(Encode(Frame(t, IF t = 4 THEN ConnectResponseBytes(invalid)
                                 ELSE <<>>)))
    /\ UNCHANGED sessVars

\* send() (protocol.rs:605-634) of a connected client: tx is Some, and
\* tx.send fails when the task has dropped rx.
SendFails == espTask # "running"

Queued(t) == Append(outbound, [msg_type |-> t, sender |-> NoSender])

\* list_entities (connection.rs:95-117) up to its select!: the check of
\* connected, register_entity_callbacks with the handlers it spawns, the
\* registration for ListEntitiesDoneResponse, and the send of the request.
ListEntities ==
    /\ sessOp.pc # "awaiting"
    /\ IF ~connected THEN NotConnected("list_entities")
       ELSE /\ \A s \in EntityIds \cup {"done"} :
                  handlers[s] = "none" /\ message_callbacks[s].type = 0
            /\ message_callbacks' =
                   RegisterAll(message_callbacks, EntityIds \cup {"done"})
            /\ handlers' = [s \in SessionCallbackIds |->
                              IF s \in EntityIds THEN "running" ELSE handlers[s]]
            /\ IF SendFails
               THEN /\ sessOp' = [OpReturned("list_entities",
                                              "Failed to send message")
                                     EXCEPT !.ids = EntityIds \cup {"done"}]
                    /\ UNCHANGED outbound
               ELSE /\ sessOp' = [OpAwaiting("list_entities")
                                     EXCEPT !.ids = EntityIds \cup {"done"}]
                    /\ outbound' = Queued(11)
            /\ UNCHANGED <<txSome, espTask, exitCause, connected,
                           pending_responses, rpc, wire, peer, peerSent,
                           dispatched, entityRx, receivers>>

ListPending == sessOp.name = "list_entities" /\ sessOp.pc = "awaiting"

\* Some(entity) = rx.recv() (connection.rs:119-121)
ListRecv ==
    /\ ListPending
    /\ entityRx # <<>>
    /\ sessOp' = [sessOp EXCEPT !.entities = Append(@, Head(entityRx))]
    /\ entityRx' = Tail(entityRx)
    /\ UNCHANGED <<espVars, handlers, receivers>>

\* list_entities returns: rx and done_rx are dropped.
ListReturn(result, mc) ==
    /\ sessOp' = [sessOp EXCEPT !.pc = "returned", !.result = result]
    /\ message_callbacks' = mc
    /\ entityRx' = <<>>
    /\ UNCHANGED <<txSome, espTask, exitCause, connected, outbound,
                   pending_responses, rpc, wire, peer, peerSent, dispatched,
                   handlers, receivers>>

\* Some(_) = done_rx.recv() (connection.rs:122-126)
ListDone ==
    /\ ListPending
    /\ message_callbacks["done"].queue # <<>>
    /\ ListReturn("Ok",
           cleanup_entity_callbacks(
               [message_callbacks EXCEPT !["done"].queue = Tail(@),
                                         !["done"].recvd = @ + 1]))

\* _ = &mut timeout (connection.rs:127-130)
ListTimeout ==
    /\ ListPending
    /\ ListReturn("TimeoutError", cleanup_entity_callbacks(message_callbacks))

\* The future of list_entities is dropped while it waits in its select!.
ListCancel ==
    /\ ListPending
    /\ sessOp' = [sessOp EXCEPT !.pc = "cancelled"]
    /\ entityRx' = <<>>
    /\ UNCHANGED <<espVars, handlers, receivers>>

\* subscribe_logs and subscribe_states (connection.rs:155-169, 178-193) up
\* to the return of send().
SubscribeSend(name, ids) ==
    /\ sessOp.pc # "awaiting"
    /\ IF ~connected THEN NotConnected(name)
       ELSE /\ \E s \in ids : handlers[s] = "none"
            /\ IF SendFails
               THEN /\ sessOp' = OpReturned(name, "Failed to send message")
                    /\ UNCHANGED outbound
               ELSE /\ sessOp' = OpAwaiting(name)
                    /\ outbound' = Queued(IF name = "subscribe_logs" THEN 28 ELSE 20)
            /\ UNCHANGED <<txSome, espTask, exitCause, connected,
                           pending_responses, message_callbacks, rpc, wire,
                           peer, peerSent, dispatched, handlers, entityRx,
                           receivers>>

SubscribeLogs == SubscribeSend("subscribe_logs", LogIds)

SubscribeStates == SubscribeSend("subscribe_states", StateIds)

\* subscribe_logs after send() (connection.rs:194-211): the registration for
\* SubscribeLogsResponse, the forwarding task, and Ok(rx).
SubscribeLogsRegister ==
    /\ sessOp.name = "subscribe_logs" /\ sessOp.pc = "awaiting"
    /\ LET s == IF handlers["logs1"] = "none" THEN "logs1" ELSE "logs2"
       IN  /\ message_callbacks' = register_callback(message_callbacks, s, 29)
           /\ handlers' = [handlers EXCEPT ![s] = "running"]
           /\ receivers' = [receivers EXCEPT ![s] = "held"]
           /\ sessOp' = [sessOp EXCEPT !.pc = "returned", !.result = "Ok",
                                       !.ids = {s}]
    /\ UNCHANGED <<txSome, espTask, exitCause, connected, outbound,
                   pending_responses, rpc, wire, peer, peerSent, dispatched,
                   entityRx>>

\* subscribe_states after send() (connection.rs:165-168):
\* register_state_callbacks with the handlers it spawns, and Ok(rx).
SubscribeStatesRegister ==
    /\ sessOp.name = "subscribe_states" /\ sessOp.pc = "awaiting"
    /\ message_callbacks' = RegisterAll(message_callbacks, StateIds)
    /\ handlers' = [s \in SessionCallbackIds |->
                      IF s \in StateIds THEN "running" ELSE handlers[s]]
    /\ sessOp' = [sessOp EXCEPT !.pc = "returned", !.result = "Ok",
                                !.ids = StateIds]
    /\ UNCHANGED <<txSome, espTask, exitCause, connected, outbound,
                   pending_responses, rpc, wire, peer, peerSent, dispatched,
                   entityRx, receivers>>

\* unsubscribe_logs (connection.rs:214-217)
UnsubscribeLogs ==
    /\ sessOp.pc # "awaiting"
    /\ \E s \in LogIds : message_callbacks[s].type = 29
    /\ message_callbacks' = remove_callbacks(message_callbacks, 29)
    /\ sessOp' = OpReturned("unsubscribe_logs", "Ok")
    /\ UNCHANGED <<txSome, espTask, exitCause, connected, outbound,
                   pending_responses, rpc, wire, peer, peerSent, dispatched,
                   handlers, entityRx, receivers>>

\* The caller drops the receiver subscribe_logs returned.
DropLogsReceiver(s) ==
    /\ receivers[s] = "held"
    /\ receivers' = [receivers EXCEPT ![s] = "dropped"]
    /\ UNCHANGED <<espVars, sessOp, handlers, entityRx>>

\* One turn of the loop of a forwarding task (connection.rs:202-209,
\* 566-595): Some(data) = rx.recv(), and tx.send(..) with its result
\* ignored; an entity reaches rx of list_entities while that is alive.
HandlerForward(s) ==
    /\ handlers[s] = "running"
    /\ message_callbacks[s].queue # <<>>
    /\ message_callbacks' = [message_callbacks EXCEPT
                               ![s].queue = Tail(@), ![s].recvd = @ + 1]
    /\ entityRx' = IF s \in EntityIds /\ ListPending
                   THEN Append(entityRx, message_callbacks[s].queue[1])
                   ELSE entityRx
    /\ UNCHANGED <<txSome, espTask, exitCause, connected, outbound,
                   pending_responses, rpc, wire, peer, peerSent, dispatched,
                   sessOp, handlers, receivers>>

\* rx.recv() returns None: the queue is empty and its sender was dropped.
HandlerExit(s) ==
    /\ handlers[s] = "running"
    /\ message_callbacks[s].queue = <<>>
    /\ message_callbacks[s].type = 0
    /\ handlers' = [handlers EXCEPT ![s] = "done"]
    /\ UNCHANGED <<espVars, sessOp, entityRx, receivers>>

SessOthers ==
    UNCHANGED <<handleVars, clientVars, sysVars, busVars, regVars, codecVars,
                mdnsVars>>

(***************************************************************************)
(* SessionSpec: the handshake against a peer that answers, and the         *)
(* operations called in every state of the session.                        *)
(***************************************************************************)

SessionNext ==
    \/ \E up \in BOOLEAN : New(up) /\ SessOthers
    \/ \E up \in BOOLEAN : Hello(up) /\ SessOthers
    \/ \E up \in BOOLEAN : Connect(up) /\ SessOthers
    \/ \E up \in BOOLEAN : Disconnect(up) /\ SessOthers
    \/ Resume /\ SessOthers
    \/ \E t \in {2, 4, 6}, invalid \in BOOLEAN : PeerAnswer(t, invalid) /\ SessOthers
    \/ TaskOutbound /\ EspOthers
    \/ TaskInbound /\ EspOthers
    \/ ListEntities /\ SessOthers
    \/ SubscribeLogs /\ SessOthers
    \/ SubscribeLogsRegister /\ SessOthers
    \/ SubscribeStates /\ SessOthers
    \/ SubscribeStatesRegister /\ SessOthers

SessionSpec == EspSpecInit /\ [][SessionNext]_vars

(***************************************************************************)
(* ListSpec: a connection that is connected, list_entities with the tasks  *)
(* it spawns, and a peer that sends entity and Done frames and may close   *)
(* the socket.                                                             *)
(***************************************************************************)

ListInbound == {12, 19}

ListNext ==
    \/ ConnectOk /\ EspOthers
    \/ TaskOutbound /\ EspOthers
    \/ TaskInbound /\ EspOthers
    \/ \E t \in ListInbound : PeerFrame(t) /\ EspOthers
    \/ PeerClose /\ EspOthers
    \/ ListEntities /\ SessOthers
    \/ ListRecv /\ SessOthers
    \/ ListDone /\ SessOthers
    \/ ListTimeout /\ SessOthers
    \/ ListCancel /\ SessOthers
    \/ \E s \in EntityIds : HandlerForward(s) /\ SessOthers
    \/ \E s \in EntityIds : HandlerExit(s) /\ SessOthers

ListSpec == EspSpecInit /\ [][ListNext]_vars

\* The timer of list_entities elapses, and the executor runs the connection
\* task and the handlers whenever they can take a step.
ListFairSpec ==
    /\ ListSpec
    /\ WF_vars(ListTimeout /\ SessOthers)
    /\ WF_vars(TaskOutbound /\ EspOthers)
    /\ WF_vars(TaskInbound /\ EspOthers)

(***************************************************************************)
(* LogsSpec: a connection that is connected, two calls of subscribe_logs,  *)
(* their forwarding tasks and receivers, unsubscribe_logs, and a peer that *)
(* sends log frames.                                                       *)
(***************************************************************************)

LogsNext ==
    \/ ConnectOk /\ EspOthers
    \/ TaskOutbound /\ EspOthers
    \/ TaskInbound /\ EspOthers
    \/ PeerFrame(29) /\ EspOthers
    \/ SubscribeLogs /\ SessOthers
    \/ SubscribeLogsRegister /\ SessOthers
    \/ UnsubscribeLogs /\ SessOthers
    \/ \E s \in LogIds : DropLogsReceiver(s) /\ SessOthers
    \/ \E s \in LogIds : HandlerForward(s) /\ SessOthers
    \/ \E s \in LogIds : HandlerExit(s) /\ SessOthers

LogsSpec == EspSpecInit /\ [][LogsNext]_vars

\* The executor runs the connection task and the forwarding tasks whenever
\* they can take a step.  Nothing obliges the caller to call
\* unsubscribe_logs.
LogsFairSpec ==
    /\ LogsSpec
    /\ WF_vars(TaskOutbound /\ EspOthers)
    /\ WF_vars(TaskInbound /\ EspOthers)
    /\ \A s \in LogIds : WF_vars(HandlerForward(s) /\ SessOthers)
    /\ \A s \in LogIds : WF_vars(HandlerExit(s) /\ SessOthers)

\* The queues of LogIds that no call of subscribe_logs has registered yet.
FreeLogIds == {s \in LogIds : handlers[s] = "none"}

AfterRegisterAndCancel(s) ==
    remove_callbacks(register_callback(message_callbacks, s, CallbackType(s)),
                     CallbackType(s))

\* C23 as stated: registering a queue for a message type and then cancelling
\* the subscription of that type leaves the dispatch table as it was before
\* the registration, the queues other subscribers had registered for the
\* type included.
C23_RegisterThenCancelRestoresTable ==
    \A s \in FreeLogIds :
        Table(AfterRegisterAndCancel(s)) = Table(message_callbacks)

\* C23: registering a queue for a message type and then cancelling the
\* subscription of that type leaves no queue under that type, the queues
\* other subscribers had registered for it included, and leaves the entries
\* of every other type as they were; the table is as before the
\* registration when no queue was registered for the type.
C23_CancelRemovesEveryQueueOfType ==
    \A s \in FreeLogIds :
        LET before == Table(message_callbacks)
            after == Table(AfterRegisterAndCancel(s))
            t == CallbackType(s)
        IN  /\ after[t] = {}
            /\ \A u \in DOMAIN before : u # t => after[u] = before[u]
            /\ before[t] = {} => after = before

\* C23 witness: unsubscribe_logs was called with the queues of two calls of
\* subscribe_logs registered, and both are gone from the table.
C23_Witness ==
    /\ sessOp.name = "unsubscribe_logs"
    /\ \A s \in LogIds : handlers[s] # "none" /\ message_callbacks[s].type = 0
    /\ \E s \in LogIds : receivers[s] = "held"

\* C24: a pending list_entities returns; when it has returned Ok a Done frame
\* was dispatched to its queue and the list holds entity frames that were
\* dispatched; and when it has returned Ok or the timeout error no queue of
\* an entity type and no queue of ListEntitiesDoneResponse is left in the
\* dispatch table.
C24_ListEntitiesTerminatesAndCleansUp ==
    /\ ListPending ~> ~ListPending
    /\ [](/\ sessOp.name = "list_entities"
          /\ sessOp.pc = "returned"
          /\ sessOp.result \in {"Ok", "TimeoutError"}
          => /\ \A s \in EntityIds \cup {"done"} : message_callbacks[s].type = 0
             /\ \A t \in {CallbackType(s) : s \in EntityIds \cup {"done"}} :
                    Table(message_callbacks)[t] = {}
             /\ sessOp.result = "Ok" =>
                  /\ \E i \in Entries : /\ dispatched[i].type = 19
                                        /\ "done" \in dispatched[i].registered
                  /\ \A j \in 1..Len(sessOp.entities) :
                        \E i \in Entries :
                            /\ dispatched[i].n = sessOp.entities[j]
                            /\ dispatched[i].registered \cap EntityIds # {})

\* C24 witness: list_entities returned Ok with an entity in its list.
C24_Witness ==
    /\ sessOp.name = "list_entities"
    /\ sessOp.pc = "returned"
    /\ sessOp.result = "Ok"
    /\ sessOp.entities # <<>>

\* C25: when list_entities, subscribe_states or subscribe_logs has returned
\* an error or was cancelled, no queue it registered is left in the dispatch
\* table, so that no handler it spawned waits on a queue that stays open.
C25_SubscriptionsReleasedOnEveryExit ==
    (/\ sessOp.name \in {"list_entities", "subscribe_states", "subscribe_logs"}
     /\ \/ sessOp.pc = "cancelled"
        \/ sessOp.pc = "returned" /\ sessOp.result # "Ok")
    => \A s \in sessOp.ids : message_callbacks[s].type = 0

GatedOps == {"list_entities", "subscribe_states", "subscribe_logs"}

C27_ConnectSetsSessionState ==
    (/\ sessOp.name = "connect"
     /\ sessOp.pc = "returned"
     /\ sessOp.c \in CallIds
     /\ rpc[sessOp.c].state = "ok")
    => IF InvalidPassword(rpc[sessOp.c].data)
       THEN sessOp.result = "AuthenticationError" /\ ~connected
       ELSE sessOp.result = "Ok" /\ connected

\* C28: after the caller has dropped the receiver that subscribe_logs
\* returned, the forwarding task of that call terminates and its queue
\* leaves the dispatch table.
C28_DroppedReceiverReleasesSubscription ==
    \A s \in LogIds :
        (receivers[s] = "dropped")
            ~> (handlers[s] = "done" /\ message_callbacks[s].type = 0)

(***************************************************************************)
(* mDNS discovery: one task per browse handle receives the ServiceEvents   *)
(* of its service type and hands each to handle_mdns_event.  The discovery *)
(* crate's handler (mdns.rs:192-252) publishes on the EventBus; the        *)
(* backend package's handler (wifi.rs:191-265) sends on device_tx.         *)
(***************************************************************************)

\* ServiceEvents received by the handlers of MdnsSpec, both drivers together.
MaxMdnsEvents == 2

\* Instance names the network announces.
Instances == {"lamp", "tv"}

\* TXT records of a resolved service: info.get_properties() as key/value pairs.
TxtRecords == {{}, {<<"version", "1.0">>}}

NoTxt == {}

\* mdns-sd's ServiceInfo::get_fullname(): "<instance>.<ty_domain>".
Fullname(inst, st) == inst \o "." \o st

ServiceEvent(kind, st, fullname, txt) ==
    [kind |-> kind, type |-> st, fullname |-> fullname, txt |-> txt]

\* What browse_handle.recv_async() yields on the browse of service type st:
\* the daemon reports the instances of that type only.
EventsOf(st) ==
    {ServiceEvent("ServiceResolved", st, Fullname(i, st), t) :
        i \in Instances, t \in TxtRecords}
    \cup {ServiceEvent(k, st, Fullname(i, st), NoTxt) :
            k \in {"ServiceRemoved", "ServiceFound"}, i \in Instances}
    \cup {ServiceEvent(k, st, "", NoTxt) :
            k \in {"SearchStarted", "SearchStopped"}}

\* format!("wifi_{}", fullname)
DeviceId(fullname) == "wifi_" \o fullname

\* BusEvent::DeviceDiscovered { id, device_type, metadata }
DeviceDiscovered(id, device_type, metadata) ==
    [kind |-> "DeviceDiscovered", id |-> id, device_type |-> device_type,
     metadata |-> metadata]

\* What BusEvent::DeviceRemoved { id } would be, and DeviceEvent::DeviceRemoved.
DeviceRemoved(id) ==
    [kind |-> "DeviceRemoved", id |-> id, device_type |-> "",
     metadata |-> NoTxt]

\* DeviceEvent::DeviceUpdated(device): the fields of the WiFiDevice compared
\* here (base.id, base.type, mdns_properties).
DeviceUpdated(id, device_type, metadata) ==
    [kind |-> "DeviceUpdated", id |-> id, device_type |-> device_type,
     metadata |-> metadata]

\* A handler that treats a resolved service as a found one: the browse's type
\* and no metadata.
ResolvedWithoutTxt(event, service_type) ==
    IF event.kind \in {"ServiceResolved", "ServiceFound"}
      THEN <<DeviceDiscovered(DeviceId(event.fullname), service_type, NoTxt)>>
      ELSE <<>>

\* mdns.rs:192-252: the events handle_mdns_event passes to event_bus.publish,
\* in order.  The ServiceRemoved arm builds device_id and publishes nothing
\* (its send is a comment, mdns.rs:223-227).
handle_mdns_event(event, service_type) ==
    CASE event.kind = "ServiceResolved" ->
            <<DeviceDiscovered(DeviceId(event.fullname), event.type,
                               event.txt)>>
      [] event.kind = "ServiceRemoved" -> <<>>
      [] event.kind = "ServiceFound" ->
            <<DeviceDiscovered(DeviceId(event.fullname), service_type, NoTxt)>>
      [] OTHER -> <<>>

\* wifi.rs:191-265: the events WiFiProtocol::handle_mdns_event sends on
\* device_tx, in order.
WiFiProtocol_handle_mdns_event(event, service_type) ==
    CASE event.kind = "ServiceResolved" ->
            <<DeviceUpdated(DeviceId(event.fullname), event.type, event.txt)>>
      [] event.kind = "ServiceRemoved" ->
            <<DeviceRemoved(DeviceId(event.fullname))>>
      [] OTHER -> <<>>

MdnsReceived == Len(mdnsSeen) + Len(wifiSeen)

\* mdns.rs:322-331 and 255-297: start_discovery spawns monitor_mdns, which
\* spawns one task for each browse handle.
StartDiscovery ==
    /\ \A st \in ServiceTypes : mdnsTasks[st] = "none"
    /\ mdnsTasks' = [st \in ServiceTypes |-> "running"]
    /\ UNCHANGED <<mdnsLog, mdnsCtl, wifiCtl>>

\* mdns.rs:276-283: recv_async() is Ok(event); the task calls
\* handle_mdns_event(event, &service_type, &event_bus) and loops.
MdnsReceive(st, event) ==
    /\ mdnsTasks[st] = "running"
    /\ MdnsReceived < MaxMdnsEvents
    /\ mdnsSeen' = Append(mdnsSeen, [event |-> event, service_type |-> st])
    /\ mdnsPublished' = mdnsPublished \o handle_mdns_event(event, st)
    /\ UNCHANGED <<mdnsTasks, wifiSeen, wifiSent, mdnsCtl, wifiCtl>>

\* mdns.rs:284-287: recv_async() is Err; the task of that browse breaks.
MdnsReceiveError(st) ==
    /\ mdnsTasks[st] = "running"
    /\ mdnsTasks' = [mdnsTasks EXCEPT ![st] = "stopped"]
    /\ UNCHANGED <<mdnsLog, mdnsCtl, wifiCtl>>

\* mdns.rs:336-346 with 289-292 and 301-304: stop_discovery sends the
\* shutdown signal; every task breaks or is aborted.  This is the interleaving
\* in which monitor_mdns had subscribed before the signal was sent; MonitorSpec
\* has the others.
StopDiscovery ==
    /\ \E st \in ServiceTypes : mdnsTasks[st] = "running"
    /\ mdnsTasks' = [st \in ServiceTypes |-> "stopped"]
    /\ UNCHANGED <<mdnsLog, mdnsCtl, wifiCtl>>

\* wifi.rs:283-288: the backend's task of a browse receives Ok(event) and
\* calls its handle_mdns_event(event, &service_type, &device_tx).
WifiReceive(st, event) ==
    /\ MdnsReceived < MaxMdnsEvents
    /\ wifiSeen' = Append(wifiSeen, [event |-> event, service_type |-> st])
    /\ wifiSent' = wifiSent \o WiFiProtocol_handle_mdns_event(event, st)
    /\ UNCHANGED <<mdnsTasks, mdnsSeen, mdnsPublished, mdnsCtl, wifiCtl>>

MdnsOthers ==
    UNCHANGED <<handleVars, clientVars, sysVars, busVars, regVars, codecVars,
                espVars, sessVars>>

MdnsInit ==
    /\ HandleInit
    /\ svc = NoService
    /\ calls = 0
    /\ SysOff
    /\ BusInit
    /\ DeviceInit

MdnsNext ==
    \/ StartDiscovery /\ MdnsOthers
    \/ \E st \in ServiceTypes : \E event \in EventsOf(st) :
            MdnsReceive(st, event) /\ MdnsOthers
    \/ \E st \in ServiceTypes : MdnsReceiveError(st) /\ MdnsOthers
    \/ StopDiscovery /\ MdnsOthers
    \/ \E st \in ServiceTypes : \E event \in EventsOf(st) :
            WifiReceive(st, event) /\ MdnsOthers

MdnsSpec == MdnsInit /\ [][MdnsNext]_vars

\* The step in which a task of the discovery crate hands an event of that
\* kind to its handler.
MdnsHandled(kind) ==
    /\ Len(mdnsSeen') = Len(mdnsSeen) + 1
    /\ mdnsSeen'[Len(mdnsSeen')].event.kind = kind

\* C29: every ServiceResolved(info) a browse task receives makes the handler
\* publish exactly one event, DeviceDiscovered with id "wifi_" + info.fullname,
\* device_type info.type and the TXT records as metadata.
C29_ResolvedPublishesOneDiscovered ==
    [][MdnsHandled("ServiceResolved") =>
        LET info == mdnsSeen'[Len(mdnsSeen')].event
        IN  mdnsPublished' =
                Append(mdnsPublished,
                       [kind |-> "DeviceDiscovered",
                        id |-> "wifi_" \o info.fullname,
                        device_type |-> info.type,
                        metadata |-> info.txt])]_vars

\* C29 witness: a resolved service with a TXT record was received and its
\* DeviceDiscovered is the last event published.
C29_Witness ==
    /\ mdnsSeen # <<>>
    /\ mdnsSeen[Len(mdnsSeen)].event.kind = "ServiceResolved"
    /\ mdnsSeen[Len(mdnsSeen)].event.txt # NoTxt
    /\ mdnsPublished # <<>>
    /\ mdnsPublished[Len(mdnsPublished)].kind = "DeviceDiscovered"
    /\ mdnsPublished[Len(mdnsPublished)].metadata # NoTxt

\* C30: every ServiceRemoved(_, fullname) a browse task receives makes the
\* handler publish DeviceRemoved with id "wifi_" + fullname on the bus.
C30_RemovedPublishesDeviceRemoved ==
    [][MdnsHandled("ServiceRemoved") =>
        LET fullname == mdnsSeen'[Len(mdnsSeen')].event.fullname
        IN  /\ Len(mdnsPublished') > Len(mdnsPublished)
            /\ \E i \in (Len(mdnsPublished) + 1)..Len(mdnsPublished') :
                    /\ mdnsPublished'[i].kind = "DeviceRemoved"
                    /\ mdnsPublished'[i].id = "wifi_" \o fullname]_vars

\* The backend package's handler does send it: each ServiceRemoved it receives
\* appends DeviceRemoved("wifi_" + fullname) to device_tx.
WifiRemovedSent ==
    [][(/\ Len(wifiSeen') = Len(wifiSeen) + 1
        /\ wifiSeen'[Len(wifiSeen')].event.kind = "ServiceRemoved")
        => wifiSent' =
             Append(wifiSent,
                    [kind |-> "DeviceRemoved",
                     id |-> "wifi_" \o wifiSeen'[Len(wifiSeen')].event.fullname,
                     device_type |-> "", metadata |-> NoTxt])]_vars

(***************************************************************************)
(* monitor_mdns of the discovery crate against stop_discovery, statement   *)
(* by statement (mdns.rs:255-313, 322-347).  start_discovery only spawns   *)
(* the monitor; DiscoveryService calls stop_discovery when its own         *)
(* shutdown signal arrives (service.rs:74-101), whatever the monitor has   *)
(* done by then.                                                           *)
(***************************************************************************)

ShutdownReceivers == ServiceTypes \cup {"monitor"}

\* mdns.rs:322-331: start_discovery spawns the task that will run
\* monitor_mdns and returns Ok.
StartProtocol ==
    /\ monPc = "none"
    /\ monPc' = "spawned"
    /\ UNCHANGED <<stopPc, browseHandles, shutdownRx, mdnsTasks, mdnsLog,
                   wifiCtl>>

\* mdns.rs:257: let mut shutdown_rx = self.shutdown.subscribe().  The receiver
\* sees the values sent from now on.
MonitorSubscribe ==
    /\ monPc = "spawned"
    /\ monPc' = "subscribed"
    /\ shutdownRx' = [shutdownRx EXCEPT !["monitor"] = "empty"]
    /\ UNCHANGED <<stopPc, browseHandles, mdnsTasks, mdnsLog, wifiCtl>>

\* mdns.rs:258-263: the read guard on browse_handles is taken (no writer
\* holds it: StopClear is one step); with no handle the monitor returns.
MonitorReadHandles ==
    /\ monPc = "subscribed"
    /\ monPc' = IF browseHandles = {} THEN "done" ELSE "spawning"
    /\ UNCHANGED <<stopPc, browseHandles, shutdownRx, mdnsTasks, mdnsLog,
                   wifiCtl>>

\* mdns.rs:268-296: one iteration of the for loop: the handle is cloned,
\* shutdown_rx.resubscribe() gives the task a receiver of the values sent from
\* now on, and the task is spawned.
MonitorSpawn(st) ==
    /\ monPc = "spawning"
    /\ st \in browseHandles
    /\ mdnsTasks[st] = "none"
    /\ mdnsTasks' = [mdnsTasks EXCEPT ![st] = "running"]
    /\ shutdownRx' = [shutdownRx EXCEPT ![st] = "empty"]
    /\ UNCHANGED <<monPc, stopPc, browseHandles, mdnsLog, wifiCtl>>

\* mdns.rs:297-300: the loop is over, the read guard is dropped, the monitor
\* enters its select!.
MonitorWait ==
    /\ monPc = "spawning"
    /\ \A st \in browseHandles : mdnsTasks[st] # "none"
    /\ monPc' = "waiting"
    /\ UNCHANGED <<stopPc, browseHandles, shutdownRx, mdnsTasks, mdnsLog,
                   wifiCtl>>

\* mdns.rs:337-339: let _ = self.shutdown.send(()).  Every receiver that
\* exists now gets the value; with no receiver send is an Err that is dropped.
StopSend ==
    /\ stopPc = "none"
    /\ stopPc' = "sent"
    /\ shutdownRx' = [r \in ShutdownReceivers |->
                        IF shutdownRx[r] = "none" THEN "none" ELSE "signalled"]
    /\ UNCHANGED <<monPc, browseHandles, mdnsTasks, mdnsLog, wifiCtl>>

\* mdns.rs:341-345: the write guard is taken once no read guard is held, and
\* the map is cleared.  The tasks keep the handles they cloned.
StopClear ==
    /\ stopPc = "sent"
    /\ monPc # "spawning"
    /\ stopPc' = "done"
    /\ browseHandles' = {}
    /\ UNCHANGED <<monPc, shutdownRx, mdnsTasks, mdnsLog, wifiCtl>>

\* mdns.rs:289-292: a task's select! takes shutdown.recv() and breaks.
TaskShutdown(st) ==
    /\ mdnsTasks[st] = "running"
    /\ shutdownRx[st] = "signalled"
    /\ mdnsTasks' = [mdnsTasks EXCEPT ![st] = "stopped"]
    /\ UNCHANGED <<mdnsLog, mdnsCtl, wifiCtl>>

\* mdns.rs:301-304: the monitor's select! takes shutdown_rx.recv() and aborts
\* every task of the join set.
MonitorShutdown ==
    /\ monPc = "waiting"
    /\ shutdownRx["monitor"] = "signalled"
    /\ monPc' = "done"
    /\ mdnsTasks' = [st \in ServiceTypes |->
                        IF mdnsTasks[st] = "running" THEN "stopped"
                        ELSE mdnsTasks[st]]
    /\ UNCHANGED <<stopPc, browseHandles, shutdownRx, mdnsLog, wifiCtl>>

\* mdns.rs:305-309: join_next() returned None: every task has ended; the
\* monitor logs and returns.  Nothing is published, slept on or recreated.
MonitorJoined ==
    /\ monPc = "waiting"
    /\ \A st \in ServiceTypes : mdnsTasks[st] # "running"
    /\ monPc' = "done"
    /\ UNCHANGED <<stopPc, browseHandles, shutdownRx, mdnsTasks, mdnsLog,
                   wifiCtl>>

MonitorNext ==
    \/ StartProtocol /\ MdnsOthers
    \/ MonitorSubscribe /\ MdnsOthers
    \/ MonitorReadHandles /\ MdnsOthers
    \/ \E st \in ServiceTypes : MonitorSpawn(st) /\ MdnsOthers
    \/ MonitorWait /\ MdnsOthers
    \/ StopSend /\ MdnsOthers
    \/ StopClear /\ MdnsOthers
    \/ \E st \in ServiceTypes : TaskShutdown(st) /\ MdnsOthers
    \/ MonitorShutdown /\ MdnsOthers
    \/ MonitorJoined /\ MdnsOthers
    \/ \E st \in ServiceTypes : \E event \in EventsOf(st) :
            MdnsReceive(st, event) /\ MdnsOthers
    \/ \E st \in ServiceTypes : MdnsReceiveError(st) /\ MdnsOthers

MonitorSpec == MdnsInit /\ [][MonitorNext]_vars

\* The executor runs the monitor, the tasks and a stop_discovery that was
\* called; whether stop_discovery is called, and what the network sends, is
\* not the program's to decide.
MonitorFairSpec ==
    /\ MonitorSpec
    /\ WF_vars(MonitorSubscribe /\ MdnsOthers)
    /\ WF_vars(MonitorReadHandles /\ MdnsOthers)
    /\ WF_vars(\E st \in ServiceTypes : MonitorSpawn(st) /\ MdnsOthers)
    /\ WF_vars(MonitorWait /\ MdnsOthers)
    /\ WF_vars(StopClear /\ MdnsOthers)
    /\ \A st \in ServiceTypes : WF_vars(TaskShutdown(st) /\ MdnsOthers)
    /\ WF_vars(MonitorShutdown /\ MdnsOthers)
    /\ WF_vars(MonitorJoined /\ MdnsOthers)

\* C31: a browse task that a receive error ended is running again later (the
\* daemon and the handles recreated after the backoff), unless the browser
\* was shut down.
C31_DiscoveryResumesAfterReceiveError ==
    \A st \in ServiceTypes :
        (mdnsTasks[st] = "stopped" /\ stopPc = "none")
            ~> (mdnsTasks[st] = "running" \/ stopPc # "none")

\* C33: once stop_discovery has returned, every per-type task ends, whatever
\* the monitor had done when the signal was sent.
C33_StopDiscoveryEndsEveryTask ==
    (stopPc = "done")
        ~> (\A st \in ServiceTypes : mdnsTasks[st] # "running")

(***************************************************************************)
(* monitor_mdns of the backend package (wifi.rs:271-333): the loop that    *)
(* spawns the browse tasks, waits for one of them to end, sends            *)
(* NetworkOffline, sleeps and calls create_mdns_service again.             *)
(* create_mdns_service (wifi.rs:160-189) keeps the browse handles and      *)
(* drops its ServiceDaemon value: the daemon's thread goes on feeding the  *)
(* handles, and nothing in the package calls shutdown() on a daemon.       *)
(***************************************************************************)

\* ServiceDaemons created in WifiSpec.
MaxDaemons == 3

\* NetworkOffline hints sent in WifiSpec.
MaxRestarts == 2

\* ServiceEvents the tasks of WifiSpec receive.
MaxWifiEvents == 1

Live == {d \in 1..Len(daemons) : daemons[d] = "live"}

\* DeviceEvent::NetworkOffline
NetworkOffline ==
    [kind |-> "NetworkOffline", id |-> "", device_type |-> "",
     metadata |-> NoTxt]

OfflineHints == Cardinality({i \in 1..Len(wifiSent) :
                                wifiSent[i].kind = "NetworkOffline"})

\* wifi.rs:160-189: ServiceDaemon::new()?, then daemon.browse(type)? for each
\* type.  Ok is the map of the new daemon's handles.  An Err of browse returns
\* after the daemon was started; an Err of new() returns before.
create_mdns_service(outcome) ==
    CASE outcome = "ok" ->
            [daemons |-> Append(daemons, "live"),
             handles |-> [st \in ServiceTypes |-> Len(daemons) + 1],
             ok |-> TRUE]
      [] outcome = "browse_failed" ->
            [daemons |-> Append(daemons, "live"), handles |-> wifiHandles,
             ok |-> FALSE]
      [] OTHER ->
            [daemons |-> daemons, handles |-> wifiHandles, ok |-> FALSE]

CreateOutcomes == {"ok", "browse_failed", "daemon_failed"}

\* wifi.rs:143-144 and 320-331: INSTANCE is WiFiProtocol::new(), which must be
\* Ok; start_discovery spawns monitor_mdns.
WifiStart ==
    /\ wifiPc = "none"
    /\ daemons = <<>>
    /\ LET r == create_mdns_service("ok")
       IN  /\ daemons' = r.daemons
           /\ wifiHandles' = r.handles
    /\ wifiPc' = "spawn"
    /\ UNCHANGED <<wifiTasks, mdnsTasks, mdnsLog, mdnsCtl>>

\* wifi.rs:276-296: the top of the loop spawns one task per browse handle.
WifiSpawn ==
    /\ wifiPc = "spawn"
    /\ wifiTasks' = [st \in ServiceTypes |-> "running"]
    /\ wifiPc' = "monitoring"
    /\ UNCHANGED <<wifiHandles, daemons, mdnsTasks, mdnsLog, mdnsCtl>>

\* wifi.rs:283-288 with a daemon behind the handle.
WifiTaskReceive(st, event) ==
    /\ wifiTasks[st] = "running"
    /\ daemons[wifiHandles[st]] = "live"
    /\ Len(wifiSeen) < MaxWifiEvents
    /\ WifiReceive(st, event)

\* The thread of a daemon ends (the network is gone): its senders are dropped.
DaemonEnds(d) ==
    /\ d \in Live
    /\ daemons' = [daemons EXCEPT ![d] = "ended"]
    /\ UNCHANGED <<wifiPc, wifiTasks, wifiHandles, mdnsTasks, mdnsLog, mdnsCtl>>

\* wifi.rs:289-292: recv_async() is Err, the task breaks.
WifiTaskError(st) ==
    /\ wifiTasks[st] = "running"
    /\ daemons[wifiHandles[st]] = "ended"
    /\ wifiTasks' = [wifiTasks EXCEPT ![st] = "stopped"]
    /\ UNCHANGED <<wifiPc, wifiHandles, daemons, mdnsTasks, mdnsLog, mdnsCtl>>

\* wifi.rs:299-310: select_all returns with the first task that ended, the
\* remaining ones are aborted and NetworkOffline is sent.
WifiSelectAll ==
    /\ wifiPc = "monitoring"
    /\ \E st \in ServiceTypes : wifiTasks[st] = "stopped"
    /\ OfflineHints < MaxRestarts
    /\ wifiTasks' = [st \in ServiceTypes |-> "stopped"]
    /\ wifiSent' = Append(wifiSent, NetworkOffline)
    /\ wifiPc' = "backoff"
    /\ UNCHANGED <<wifiSeen, wifiHandles, daemons, mdnsTasks, mdnsSeen,
                   mdnsPublished, mdnsCtl>>

\* wifi.rs:312-331: after sleep(5 s), create_mdns_service(): Ok replaces
\* browse_handles and the loop goes round; Err sleeps again and continues.
WifiRecreate(outcome) ==
    /\ wifiPc = "backoff"
    /\ outcome # "daemon_failed" => Len(daemons) < MaxDaemons
    /\ LET r == create_mdns_service(outcome)
       IN  /\ daemons' = r.daemons
           /\ wifiHandles' = r.handles
    /\ wifiPc' = "spawn"
    /\ UNCHANGED <<wifiTasks, mdnsTasks, mdnsLog, mdnsCtl>>

WifiNext ==
    \/ WifiStart /\ MdnsOthers
    \/ WifiSpawn /\ MdnsOthers
    \/ \E st \in ServiceTypes : \E event \in EventsOf(st) :
            WifiTaskReceive(st, event) /\ MdnsOthers
    \/ \E d \in 1..MaxDaemons : DaemonEnds(d) /\ MdnsOthers
    \/ \E st \in ServiceTypes : WifiTaskError(st) /\ MdnsOthers
    \/ WifiSelectAll /\ MdnsOthers
    \/ \E outcome \in CreateOutcomes : WifiRecreate(outcome) /\ MdnsOthers

WifiSpec == MdnsInit /\ [][WifiNext]_vars

\* C32: at most one mDNS daemon is live at any time, across the restarts too.
C32_AtMostOneDaemonLive == Cardinality(Live) <= 1

\* The backend's loop does send the offline hint before it recreates: the
\* monitor is in its backoff only after a NetworkOffline was sent.
WifiOfflineBeforeRecreate ==
    wifiPc = "backoff" =>
        /\ wifiSent # <<>>
        /\ wifiSent[Len(wifiSent)].kind = "NetworkOffline"

\* C34: ESPHomeConnection::new for an address on which nothing listens
\* returns an error.
C34_NewFailsWhenNothingListens ==
    (sessOp.name = "new" /\ sessOp.pc = "returned" /\ ~sessOp.listening)
        => sessOp.result # "Ok"

(***************************************************************************)
(* DeviceRegistry (packages/backend/src/device/registry.rs) under its two  *)
(* writers: the discovery loop, which registers, unregisters and sweeps    *)
(* on NetworkOffline (api/src/discovery/mod.rs:91-117), and the event      *)
(* processor (api/src/events/processor.rs:62-123).  Every method takes the *)
(* lock for its own duration only.                                         *)
(***************************************************************************)

\* Calls of registry methods in DevRegSpec.
MaxRegistryOps == 4

Device(id, status, raw_details) ==
    [id |-> id, status |-> status, raw_details |-> raw_details]

\* What the discovery loop registers: the device as the driver built it.
DiscoveredDevices == {Device(id, "Online", "{}") : id \in RegistryIds}

Ids(reg) == {id \in RegistryIds : reg[id] # Absent}

\* An unregister_device that leaves the map as it is.
UnregisterKeepsEntry(reg, device_id) == reg

\* registry.rs:21-36: devices.insert(device_id, device): the entry under the
\* device's id is inserted or replaced.
register_device(reg, device) == [reg EXCEPT ![device.id] = device]

\* registry.rs:38-46: devices.remove(device_id).
unregister_device(reg, device_id) == [reg EXCEPT ![device_id] = Absent]

\* registry.rs:48-51: devices.get(device_id).cloned(); None is Absent.
get_device(reg, device_id) == reg[device_id]

\* registry.rs:53-56: devices.values().cloned().collect(), in no order.
get_all_devices(reg) == {reg[id] : id \in Ids(reg)}

\* registry.rs:58-72 with the update_fn of the test (126-131), which sets
\* device.status: get_mut, and nothing for an id that is not in the map.
update_device_status(reg, device_id, status) ==
    IF reg[device_id] = Absent THEN reg
    ELSE [reg EXCEPT ![device_id].status = status]

\* The call of a registry method, after the one before it.
Track(name, id) ==
    /\ regOp.n < MaxRegistryOps
    /\ regOp' = [n |-> regOp.n + 1, name |-> name, id |-> id,
                 before |-> Ids(registry), prevName |-> regOp.name,
                 prevId |-> regOp.id, before2 |-> regOp.before]

\* discovery/mod.rs:95-99: DeviceUpdated(device) => register_device(device).
\* The loop handles one event at a time: not while it sweeps.
DeviceUpdatedEvent(device) ==
    /\ sweep = {}
    /\ Track("register_device", device.id)
    /\ registry' = register_device(registry, device)
    /\ UNCHANGED <<proc, sweep, devices, regEvents>>

\* discovery/mod.rs:100-104: DeviceRemoved(id) => unregister_device(&id).
DeviceRemovedEvent(id) ==
    /\ sweep = {}
    /\ Track("unregister_device", id)
    /\ registry' = unregister_device(registry, id)
    /\ UNCHANGED <<proc, sweep, devices, regEvents>>

\* registry.rs:126-131: update_device_status(id, |device| device.status = ..).
UpdateDeviceStatus(id, status) ==
    /\ sweep = {}
    /\ Track("update_device_status", id)
    /\ registry' = update_device_status(registry, id, status)
    /\ UNCHANGED <<proc, sweep, devices, regEvents>>

\* discovery/mod.rs:105-108: NetworkOffline => get_all_devices().
SweepRead ==
    /\ sweep = {}
    /\ Ids(registry) # {}
    /\ Track("get_all_devices", "all")
    /\ sweep' = get_all_devices(registry)
    /\ UNCHANGED <<registry, proc, devices, regEvents>>

\* discovery/mod.rs:109-114: one iteration of the for loop: the copy is set
\* Offline and registered.
SweepWrite(copy) ==
    /\ copy \in sweep
    /\ Track("register_device", copy.id)
    /\ registry' = register_device(registry, [copy EXCEPT !.status = "Offline"])
    /\ sweep' = sweep \ {copy}
    /\ UNCHANGED <<proc, devices, regEvents>>

\* processor.rs:66-69, 96-98, 102-104: get_device(device_id) and, if Some,
\* the change made to the copy.
Changed(kind, device) ==
    CASE kind = "StateChange" -> [device EXCEPT !.raw_details = "state"]
      [] kind = "DeviceOnline" -> [device EXCEPT !.status = "Online"]
      [] kind = "DeviceOffline" -> [device EXCEPT !.status = "Offline"]

ProcessEvents == {"StateChange", "DeviceOnline", "DeviceOffline"}

ProcessRead(kind, id) ==
    /\ proc.pc = "idle"
    /\ Track("get_device", id)
    /\ LET copy == get_device(registry, id)
       IN  proc' = IF copy = Absent THEN NoCopy
                   ELSE [pc |-> "read", id |-> id,
                         device |-> Changed(kind, copy)]
    /\ UNCHANGED <<registry, sweep, devices, regEvents>>

\* processor.rs:70, 99, 105: register_device(device) with the copy.
ProcessWrite ==
    /\ proc.pc = "read"
    /\ Track("register_device", proc.id)
    /\ registry' = register_device(registry, proc.device)
    /\ proc' = NoCopy
    /\ UNCHANGED <<sweep, devices, regEvents>>

DevRegOthers ==
    UNCHANGED <<handleVars, clientVars, sysVars, busVars, codecVars, espVars,
                sessVars, mdnsVars>>

DevRegNext ==
    \/ \E device \in DiscoveredDevices : DeviceUpdatedEvent(device) /\ DevRegOthers
    \/ \E id \in RegistryIds : DeviceRemovedEvent(id) /\ DevRegOthers
    \/ \E id \in RegistryIds, status \in {"Online", "Offline"} :
            UpdateDeviceStatus(id, status) /\ DevRegOthers
    \/ SweepRead /\ DevRegOthers
    \/ \E copy \in sweep : SweepWrite(copy) /\ DevRegOthers
    \/ \E kind \in ProcessEvents, id \in RegistryIds :
            ProcessRead(kind, id) /\ DevRegOthers
    \/ ProcessWrite /\ DevRegOthers

DevRegSpec == RegSpecInit /\ [][DevRegNext]_vars

RegisterThenUnregister ==
    /\ regOp.name = "unregister_device"
    /\ regOp.prevName = "register_device"
    /\ regOp.prevId = regOp.id

\* C35 as claimed: register_device followed by unregister_device of the same
\* id restores the set of ids there was before the two.
C35_RegisterUnregisterRestoresIds ==
    RegisterThenUnregister => Ids(registry) = regOp.before2

\* C35: register_device inserts or replaces the entry of the device's id and
\* no other; get_device and get_all_devices change nothing and the copies they
\* return are not the entries (a change to a copy is not in the map until it
\* is registered); update_device_status changes the status of the entry in
\* place and nothing for an unknown id; unregister_device removes the entry;
\* register followed by unregister of the same id leaves the ids there were
\* before without that id, which is the set before only if the id was new.
C35_RegistryKeepsOneEntryPerId ==
    [][LET id == regOp'.id
           name == regOp'.name
           Same(ids) == \A o \in ids : registry'[o] = registry[o]
       IN  regOp'.n = regOp.n + 1 =>
            /\ name = "register_device" =>
                /\ Ids(registry') = Ids(registry) \cup {id}
                /\ registry'[id].id = id
                /\ Same(RegistryIds \ {id})
            /\ name = "unregister_device" =>
                /\ Ids(registry') = Ids(registry) \ {id}
                /\ Same(RegistryIds \ {id})
                /\ (regOp'.prevName = "register_device" /\ regOp'.prevId = id)
                    => /\ Ids(registry') = regOp'.before2 \ {id}
                       /\ id \notin regOp'.before2
                            => Ids(registry') = regOp'.before2
            /\ name \in {"get_device", "get_all_devices"} =>
                /\ Same(RegistryIds)
                /\ (name = "get_device" /\ proc'.pc = "read")
                    => proc'.device.id = id
                /\ name = "get_all_devices"
                    => {c.id : c \in sweep'} = Ids(registry)
            /\ name = "update_device_status" =>
                /\ Ids(registry') = Ids(registry)
                /\ Same(RegistryIds \ {id})
                /\ registry[id] = Absent => registry' = registry
                /\ registry[id] # Absent =>
                    /\ registry'[id].id = id
                    /\ registry'[id].raw_details = registry[id].raw_details]_vars

\* C35 witness: a device was registered under an id that was in the map and
\* then unregistered: the id is gone, and it was there before the two calls.
C35_Witness ==
    /\ RegisterThenUnregister
    /\ regOp.id \in regOp.before2
    /\ regOp.id \notin Ids(registry)

\* C36: the write of an update that had read its copy never inserts an id
\* that was removed from the map since.
C36_RemovedDeviceNotReinserted ==
    [][(proc.pc = "read" /\ proc'.pc = "idle")
        => registry[proc.id] # Absent]_vars

\* C37: a cancel that stop() has signalled is not lost: a run() of a select
\* loop that was between two iterations, or had not begun to wait, when
\* notify_waiters() ran has its current or next wait_for_cancel() complete,
\* so it leaves its loop.
C37_CancelNeverLost ==
    \A s \in {"bus", "registry", "integrations"} :
        (everStopped[s] /\ task[s] \in {"iter", "waiting"})
            ~> (task[s] \notin {"iter", "waiting"})


\* The entity frames that the connection task put on the queue of their
\* type before it dispatched the first ListEntitiesDoneResponse to done_rx.
EntitiesBeforeDone ==
    {j \in Entries :
        /\ dispatched[j].registered \cap EntityIds # {}
        /\ dispatched[j].full \cap EntityIds = {}
        /\ \E i \in Entries : /\ j < i
                              /\ "done" \in dispatched[i].registered
                              /\ "done" \notin dispatched[i].full}

\* C38: when list_entities has returned Ok, its list holds every entity
\* frame that was dispatched before the Done frame: none of them is still
\* in the queue of its type or with its handler task.
C38_ListHoldsEveryEntityBeforeDone ==
    (/\ sessOp.name = "list_entities"
     /\ sessOp.pc = "returned"
     /\ sessOp.result = "Ok")
    => Cardinality(EntitiesBeforeDone) <= Len(sessOp.entities)


\* The call `name` has returned from send() and the connection task has
\* written its request, of type t, to the socket (protocol.rs:463-490):
\* the peer can answer it.
RequestAtPeer(name, t) ==
    /\ sessOp.name = name
    /\ sessOp.pc = "awaiting"
    /\ \A i \in 1..Len(outbound) : outbound[i].msg_type # t

\* C39: no state or log frame sent in reply to SubscribeStatesRequest or
\* SubscribeLogsRequest finds the dispatch table without a subscriber of its
\* type: whenever the request of subscribe_states or of subscribe_logs has
\* been written to the peer, the queues of that call are registered.
C39_SubscribedBeforeRequestReachesPeer ==
    /\ RequestAtPeer("subscribe_logs", 28) =>
           Table(message_callbacks)[29] # {}
    /\ RequestAtPeer("subscribe_states", 20) =>
           \A s \in StateIds : Table(message_callbacks)[CallbackType(s)] # {}


\* The services on which System::stop has called stop().
StopAttempted == {stopLog[i] : i \in 1..Len(stopLog)}

=============================================================================
